---- MODULE Spec2Model ----
(***************************************************************************)
(* Verification model of the campaign automation core:                     *)
(*   - ThinkingEngine (thinking.py): patterns of dependent steps           *)
(*   - ErrorHandlingEngine (error_handling.py): classification, recovery   *)
(*     strategies and the circuit breaker registry                         *)
(***************************************************************************)
EXTENDS Integers, Sequences, FiniteSets, TLC

(***************************************************************************)
(* Bounds of the model                                                     *)
(***************************************************************************)
\* number of steps of the campaign pattern that are modelled (a prefix of
\* the declaration order; dependencies only point backwards)
NSteps == 4
\* total number of process_thinking_step invocations
MaxCalls == 4
\* number of steps of the pattern whose stage is not a ThinkingStage member
MaxBad == 1
\* total number of errors handed to handle_error
MaxErrors == 6
\* number of times the clock advances
MaxTicks == 1

(***************************************************************************)
(* thinking.py : the campaign pattern                                      *)
(***************************************************************************)
\* ids of the steps of WhatsAppCampaignThinking, in declaration order
StepNames ==
  << "analyze_audience_data", "analyze_historical_performance",
     "plan_segmentation_strategy", "plan_message_sequences",
     "execute_smart_segmentation", "optimize_message_timing",
     "optimize_message_content", "execute_campaign_launch",
     "monitor_real_time_performance", "evaluate_roi_performance",
     "adapt_strategy_realtime" >>

\* ThinkingStep.dependencies of every step of the pattern
dependencies ==
  [ analyze_audience_data |-> {},
    analyze_historical_performance |-> {"analyze_audience_data"},
    plan_segmentation_strategy |->
        {"analyze_audience_data", "analyze_historical_performance"},
    plan_message_sequences |-> {"plan_segmentation_strategy"},
    execute_smart_segmentation |-> {"plan_segmentation_strategy"},
    optimize_message_timing |->
        {"plan_message_sequences", "execute_smart_segmentation"},
    optimize_message_content |-> {"execute_smart_segmentation"},
    execute_campaign_launch |->
        {"optimize_message_timing", "optimize_message_content"},
    monitor_real_time_performance |-> {"execute_campaign_launch"},
    evaluate_roi_performance |-> {"monitor_real_time_performance"},
    adapt_strategy_realtime |-> {"evaluate_roi_performance"} ]

\* ThinkingStep.priority of every step of the pattern
priority ==
  [ analyze_audience_data |-> "critical",
    analyze_historical_performance |-> "high",
    plan_segmentation_strategy |-> "critical",
    plan_message_sequences |-> "high",
    execute_smart_segmentation |-> "critical",
    optimize_message_timing |-> "high",
    optimize_message_content |-> "high",
    execute_campaign_launch |-> "critical",
    monitor_real_time_performance |-> "critical",
    evaluate_roi_performance |-> "high",
    adapt_strategy_realtime |-> "high" ]

\* the steps of the modelled pattern
Steps == { StepNames[i] : i \in 1..NSteps }

\* ThinkingStatus values a step takes
PENDING == "pending"
IN_PROGRESS == "in_progress"
COMPLETED == "completed"
FAILED == "failed"

\* the name start_thinking registers the pattern under
PatternId == "WhatsApp Campaign Orchestration"

VARIABLES
  active_patterns,  \* ThinkingEngine.active_patterns: ids of started patterns
  thinking_queue,   \* ThinkingEngine.thinking_queue: messages put, never taken
  status,           \* step id -> ThinkingStep.status
  result,           \* step id -> ThinkingStep.result ("none" or "set")
  errors,           \* step id -> length of ThinkingStep.errors
  inflight,         \* step id -> invocations of process_thinking_step that
                    \* are suspended in _execute_step_logic
  badStage,         \* steps whose stage is not a ThinkingStage member
  calls,            \* number of process_thinking_step invocations so far
  thinkRet          \* value returned by the last finished engine operation

engineVars ==
  << active_patterns, thinking_queue, status, result, errors, inflight,
     badStage, calls, thinkRet >>



VARIABLES
  now,              \* datetime.now(), in seconds
  ticks,            \* number of clock advances so far
  error_registry,   \* ErrorHandlingEngine.error_registry: error_id -> record
  error_patterns,   \* ErrorHandlingEngine.error_patterns: key -> records
  circuit_breakers, \* ErrorHandlingEngine.circuit_breakers: component -> breaker
  recovery_history, \* length of ErrorHandlingEngine.recovery_history
  nErrors,          \* number of handle_error calls so far
  cooledSeen,       \* components whose open breaker a status check reported
                    \* after its cool-down, with no failure or reset since
  failing_handlers, \* strategies whose RecoveryAction.handler raises
  errRet            \* value returned by the last finished operation

errVars ==
  << now, ticks, error_registry, error_patterns, circuit_breakers,
     recovery_history, nErrors, cooledSeen, failing_handlers, errRet >>

VARIABLES
  args,             \* arguments of the function under evaluation
  ret               \* value it returned ([op |-> "none"] before the call)

fnVars == << args, ret >>

VARIABLES
  metric_history,   \* PerformanceMonitor.metric_history: key -> values
  active_alerts,    \* PerformanceMonitor.active_alerts: alert id -> Alert
  monRet            \* value returned by the last finished monitor operation

VARIABLES
  monitoring_active, \* PerformanceMonitor.monitoring_active
  loops              \* the tasks start_monitoring created, in creation order:
                     \* the campaign of each _monitoring_loop, its state and
                     \* the time its sleep ends

loopVars == << monitoring_active, loops >>

monVars == << metric_history, active_alerts, monRet, loopVars >>

VARIABLES
  investment_tracking,  \* ROITracker.investment_tracking: campaign -> amounts
  revenue_tracking,     \* ROITracker.revenue_tracking: campaign -> revenues
  conversion_tracking,  \* ROITracker.conversion_tracking: campaign -> records
  roiRet                \* value returned by the last finished ROI operation

VARIABLES
  optimization_history, \* OptimizationEngine.optimization_history
  implementing          \* results of the implement_optimization calls that
                        \* are suspended in the handler of their action

optVars == << optimization_history, implementing >>

roiVars ==
  << investment_tracking, revenue_tracking, conversion_tracking, roiRet,
     optVars >>

VARIABLES
  active_workflows,     \* WorkflowOrchestrator.active_workflows: id -> context
  executing,            \* id -> context of a start_campaign_workflow that is
                        \* suspended in _execute_complete_workflow
  tasks,                \* monitoring tasks created so far: task -> state
  wfRet                 \* value returned by the last finished orchestrator
                        \* operation

VARIABLES
  server_patterns,      \* SequentialThinkingServer.thinking_engine
                        \* .active_patterns: ids of started patterns
  server_queue,         \* thinking_queue of the same engine
  active_campaigns,     \* SequentialThinkingServer.active_campaigns
  starting,             \* _start_campaign_thinking calls suspended in
                        \* start_campaign_workflow: workflow id -> call
  srvRet                \* value returned by the last finished server
                        \* operation

srvVars ==
  << server_patterns, server_queue, active_campaigns, starting, srvRet >>

wfVars == << active_workflows, executing, tasks, wfRet, srvVars >>

vars == << engineVars, errVars, fnVars, monVars, roiVars, wfVars >>

\* the variables an operation of the thinking engine leaves alone
notEngineVars == << errVars, fnVars, monVars, roiVars, wfVars >>
\* the variables an operation of the error engine leaves alone
notErrVars == << engineVars, fnVars, monVars, roiVars, wfVars >>

\* state after ThinkingEngine() and the construction of the pattern, the
\* steps of bad carrying a stage that is not a ThinkingStage member
EngineInit(bad) ==
  /\ active_patterns = {}
  /\ thinking_queue = << >>
  /\ status = [s \in Steps |-> PENDING]
  /\ result = [s \in Steps |-> "none"]
  /\ errors = [s \in Steps |-> 0]
  /\ inflight = [s \in Steps |-> 0]
  /\ badStage = bad
  /\ calls = 0
  /\ thinkRet = [op |-> "none"]

\* ThinkingEngine.start_thinking(pattern)
start_thinking ==
  /\ PatternId \notin active_patterns
  /\ active_patterns' = active_patterns \cup {PatternId}
  /\ thinking_queue' = Append(thinking_queue,
                              [action |-> "start_pattern", pattern_id |-> PatternId])
  /\ thinkRet' = [op |-> "start_thinking", pattern_id |-> PatternId]
  /\ UNCHANGED << status, result, errors, inflight, badStage, calls >>
  /\ UNCHANGED notEngineVars

\* ThinkingEngine.process_thinking_step(pattern_id, step), up to the await of
\* the step logic: the status is set to IN_PROGRESS without any condition
ProcessBegin(s) ==
  /\ calls < MaxCalls
  /\ calls' = calls + 1
  /\ status' = [status EXCEPT ![s] = IN_PROGRESS]
  /\ inflight' = [inflight EXCEPT ![s] = @ + 1]
  /\ UNCHANGED << active_patterns, thinking_queue, result, errors, badStage,
                  thinkRet >>
  /\ UNCHANGED notEngineVars

\* _execute_step_logic raises (ValueError) exactly for a stage that is not a
\* ThinkingStage member
StepLogicRaises(s) == s \in badStage

\* process_thinking_step resumes after the step logic returned a result
ProcessComplete(s) ==
  /\ inflight[s] > 0
  /\ ~ StepLogicRaises(s)
  /\ status' = [status EXCEPT ![s] = COMPLETED]
  /\ result' = [result EXCEPT ![s] = "set"]
  /\ inflight' = [inflight EXCEPT ![s] = @ - 1]
  /\ thinkRet' = [op |-> "process_thinking_step", success |-> TRUE, step_id |-> s]
  /\ UNCHANGED << active_patterns, thinking_queue, errors, badStage, calls >>
  /\ UNCHANGED notEngineVars

\* process_thinking_step resumes in its except branch
ProcessFail(s) ==
  /\ inflight[s] > 0
  /\ StepLogicRaises(s)
  /\ status' = [status EXCEPT ![s] = FAILED]
  /\ errors' = [errors EXCEPT ![s] = @ + 1]
  /\ inflight' = [inflight EXCEPT ![s] = @ - 1]
  /\ thinkRet' = [op |-> "process_thinking_step", success |-> FALSE, step_id |-> s]
  /\ UNCHANGED << active_patterns, thinking_queue, result, badStage, calls >>
  /\ UNCHANGED notEngineVars



(***************************************************************************)
(* error_handling.py : ErrorHandlingEngine                                 *)
(* Time is counted in seconds.                                             *)
(***************************************************************************)
\* ErrorSeverity
SEV_LOW == "low"
SEV_MEDIUM == "medium"
SEV_HIGH == "high"
SEV_CRITICAL == "critical"
SEV_FATAL == "fatal"

\* ErrorCategory
NETWORK == "network"
API == "api"
DATABASE == "database"
AUTHENTICATION == "authentication"
RATE_LIMITING == "rate_limiting"
DATA_VALIDATION == "data_validation"
BUSINESS_LOGIC == "business_logic"
SYSTEM == "system"
EXTERNAL_SERVICE == "external_service"

\* RecoveryStrategy
RETRY == "retry"
RETRY_WITH_BACKOFF == "retry_with_backoff"
FALLBACK == "fallback"
CIRCUIT_BREAKER == "circuit_breaker"
GRACEFUL_DEGRADATION == "graceful_degradation"
ESCALATION == "escalation"
MANUAL_INTERVENTION == "manual_intervention"

\* Python's None, for optional strings and for an unset last_failure
None == "None"
NoTime == -1

\* "failure_threshold": 5 of a new breaker
failure_threshold == 5
\* "timeout": timedelta(minutes=5) of a new breaker
timeout == 300
\* timedelta(hours=1) of the pattern analysis
PatternWindow == 3600
\* len(recent_errors) >= 5 of the pattern analysis
PatternThreshold == 5

\* the errors handed to the engine: the exception class and the message,
\* with the keywords of the classification rules the lower-cased message
\* contains
ConnectionRefused ==
  [type |-> "ConnectionError", msg |-> "connection refused", words |-> {}]
RateLimited ==
  [type |-> "CampaignError", msg |-> "rate limit exceeded",
   words |-> {"rate limit"}]
SendFailed ==
  [type |-> "CampaignError", msg |-> "send failed", words |-> {}]

\* the errors whose strategy is CIRCUIT_BREAKER
BreakerErrors == { RateLimited }
\* errors of the Network category and errors whose strategy is RETRY
PatternErrors == { ConnectionRefused, SendFailed }

\* ErrorContext.component / ErrorContext.campaign_id given by the callers
CtxComponents == {"waha-send", None}
Contexts ==
  { [component |-> "waha-send", campaign_id |-> "campaign-1"],
    [component |-> None, campaign_id |-> None] }

\* component names given to reset_circuit_breaker
ResetComponents == {"waha-send", "unknown_component", "n8n-webhook"}

\* time_range arguments of get_error_statistics (1 hour, 24 hours)
TimeRanges == {3600, 86400}


IsNetworkError(e) == e.type \in {"ConnectionError", "TimeoutError"}

\* variant of _classify_error_severity: a network error of a campaign is
\* Fatal
_classify_error_severity_Fatal(e, x) ==
  IF IsNetworkError(e) /\ x.campaign_id # None THEN SEV_FATAL
  ELSE IF e.type \in {"ValueError", "KeyError"} /\ "authentication" \in e.words
       THEN SEV_HIGH
  ELSE SEV_MEDIUM

\* ErrorHandlingEngine._classify_error_severity
_classify_error_severity(e, x) ==
  IF IsNetworkError(e) /\ x.campaign_id # None THEN SEV_CRITICAL
  ELSE IF e.type \in {"ValueError", "KeyError"} /\ "authentication" \in e.words
       THEN SEV_HIGH
  ELSE SEV_MEDIUM

\* variant of _classify_error_category: the rate limiting rule is tried
\* before the authentication rule
_classify_error_category_RateLimitFirst(e) ==
  IF IsNetworkError(e) THEN NETWORK
  ELSE IF e.words \cap {"rate limit", "429"} # {} THEN RATE_LIMITING
  ELSE IF e.words \cap {"authentication", "unauthorized"} # {} THEN AUTHENTICATION
  ELSE IF e.words \cap {"database", "sql"} # {} THEN DATABASE
  ELSE IF e.words \cap {"api", "http"} # {} THEN API
  ELSE IF e.type \in {"ValueError", "TypeError"} THEN DATA_VALIDATION
  ELSE SYSTEM

\* ErrorHandlingEngine._classify_error_category
_classify_error_category(e) ==
  IF IsNetworkError(e) THEN NETWORK
  ELSE IF e.words \cap {"authentication", "unauthorized"} # {} THEN AUTHENTICATION
  ELSE IF e.words \cap {"rate limit", "429"} # {} THEN RATE_LIMITING
  ELSE IF e.words \cap {"database", "sql"} # {} THEN DATABASE
  ELSE IF e.words \cap {"api", "http"} # {} THEN API
  ELSE IF e.type \in {"ValueError", "TypeError"} THEN DATA_VALIDATION
  ELSE SYSTEM

\* variant of _determine_recovery_strategy: the category rules are tried
\* before the severity rule
_determine_recovery_strategy_CategoryFirst(severity, category) ==
  IF category = NETWORK THEN RETRY_WITH_BACKOFF
  ELSE IF category = RATE_LIMITING THEN CIRCUIT_BREAKER
  ELSE IF category = AUTHENTICATION THEN ESCALATION
  ELSE IF category = API THEN FALLBACK
  ELSE IF category = DATABASE THEN RETRY_WITH_BACKOFF
  ELSE IF severity = SEV_FATAL THEN MANUAL_INTERVENTION
  ELSE RETRY

\* ErrorHandlingEngine._determine_recovery_strategy
_determine_recovery_strategy(severity, category) ==
  IF severity = SEV_FATAL THEN MANUAL_INTERVENTION
  ELSE IF category = NETWORK THEN RETRY_WITH_BACKOFF
  ELSE IF category = RATE_LIMITING THEN CIRCUIT_BREAKER
  ELSE IF category = AUTHENTICATION THEN ESCALATION
  ELSE IF category = API THEN FALLBACK
  ELSE IF category = DATABASE THEN RETRY_WITH_BACKOFF
  ELSE RETRY

\* error_id of _create_error_record: the second of creation and the message
\* (through its hash)
ErrorId(e, t) == << t, e.msg >>

\* pattern_key of _analyze_error_patterns
PatternKey(e) == << e.type, _classify_error_category(e) >>

\* error_patterns[key] of the defaultdict
PatternList(patterns, key) ==
  IF key \in DOMAIN patterns THEN patterns[key] ELSE << >>

\* recent_errors of _analyze_error_patterns, as indices into the list
RecentErrors(list, t) ==
  { i \in 1..Len(list) : t - list[i].timestamp < PatternWindow }

\* the recovery_strategy _analyze_error_patterns leaves in the record, which
\* holds the default RETRY when it runs
AnalyzedStrategy(current, nRecent) ==
  IF nRecent >= PatternThreshold /\ current = RETRY THEN CIRCUIT_BREAKER
  ELSE current

\* handle_error, "Determine recovery strategy": the result of
\* _determine_recovery_strategy is assigned to the record, whatever
\* _analyze_error_patterns left there
ChosenStrategy(analyzed, severity, category) ==
  _determine_recovery_strategy(severity, category)

\* strategies with an entry in recovery_actions
HasRecoveryAction(strategy) ==
  strategy \in {RETRY, RETRY_WITH_BACKOFF, FALLBACK, CIRCUIT_BREAKER,
                GRACEFUL_DEGRADATION}

\* the breaker _handle_circuit_breaker registers for a new component
NewBreaker ==
  [state |-> "closed", failure_count |-> 0,
   failure_threshold |-> failure_threshold, timeout |-> timeout,
   last_failure |-> NoTime]

\* component of _handle_circuit_breaker
BreakerComponent(x) ==
  IF x.component = None THEN "unknown_component" ELSE x.component

\* variant of StateAfterFailure: the breaker opens only above the threshold
StateAfterFailure_AboveThreshold(b) ==
  IF b.failure_count > b.failure_threshold THEN "open" ELSE b.state

\* state written by _handle_circuit_breaker once the count is incremented
StateAfterFailure(b) ==
  IF b.failure_count >= b.failure_threshold THEN "open" ELSE b.state

\* variant of BreakersAfterFailure: the breaker is initialised on every
\* failure, registered or not
BreakersAfterFailure_Reinitialised(cbs, c, t) ==
  LET counted == [NewBreaker EXCEPT !.failure_count = @ + 1,
                                    !.last_failure = t]
      new == [counted EXCEPT !.state = StateAfterFailure(counted)]
  IN [d \in DOMAIN cbs \cup {c} |-> IF d = c THEN new ELSE cbs[d]]

\* circuit_breakers after _handle_circuit_breaker for component c at time t
BreakersAfterFailure(cbs, c, t) ==
  LET old == IF c \in DOMAIN cbs THEN cbs[c] ELSE NewBreaker
      counted == [old EXCEPT !.failure_count = @ + 1, !.last_failure = t]
      new == [counted EXCEPT !.state = StateAfterFailure(counted)]
  IN [d \in DOMAIN cbs \cup {c} |-> IF d = c THEN new ELSE cbs[d]]

\* dict returned by _handle_circuit_breaker, given the breaker it updated
CircuitBreakerResult(b) ==
  IF b.failure_count >= b.failure_threshold
  THEN [success |-> TRUE, action |-> "circuit_breaker_open",
        circuit_state |-> "open",
        next_steps |-> << "Circuit breaker opened",
                          "Redirect traffic to alternatives",
                          "Wait before retry" >>]
  ELSE [success |-> TRUE, action |-> "circuit_breaker_count",
        circuit_state |-> "closed", failure_count |-> b.failure_count,
        next_steps |-> << "Continue monitoring",
                          "Prepare for circuit breaker activation" >>]

\* the handler registered for the strategy returns (it is registered and
\* does not raise)
HandlerReturns(strategy) ==
  HasRecoveryAction(strategy) /\ strategy \notin failing_handlers

\* dict returned by the handler registered for the strategy
HandlerResult(strategy, cbsAfter, c) ==
  IF strategy = CIRCUIT_BREAKER THEN CircuitBreakerResult(cbsAfter[c])
  ELSE IF strategy = RETRY
       THEN [success |-> TRUE, action |-> "retry_operation",
             next_steps |-> << "Re-execute the failed operation" >>]
  ELSE IF strategy = RETRY_WITH_BACKOFF
       THEN [success |-> TRUE, action |-> "retry_with_backoff",
             next_steps |-> << "Retry after backoff" >>]
  ELSE IF strategy = FALLBACK
       THEN [success |-> TRUE, action |-> "fallback_method",
             next_steps |-> << "Use fallback",
                               "Monitor primary system recovery" >>]
  ELSE [success |-> TRUE, action |-> "graceful_degradation",
        next_steps |-> << "Reduce functionality",
                          "Maintain core functionality",
                          "Monitor for service recovery" >>]

\* variant of RecoveryResult: a strategy without a recovery action counts as
\* recovered
RecoveryResult_MissingActionSucceeds(strategy, cbsAfter, c) ==
  IF ~ HasRecoveryAction(strategy)
  THEN [success |-> TRUE, action |-> "none",
        error |-> "No recovery action defined"]
  ELSE IF ~ HandlerReturns(strategy)
  THEN [success |-> FALSE, action |-> "none",
        error |-> "Recovery execution failed"]
  ELSE HandlerResult(strategy, cbsAfter, c)

\* dict returned by _execute_recovery: without a recovery action, when the
\* handler raises (the except branch), and the handler's own result
RecoveryResult(strategy, cbsAfter, c) ==
  IF ~ HasRecoveryAction(strategy)
  THEN [success |-> FALSE, action |-> "none",
        error |-> "No recovery action defined"]
  ELSE IF ~ HandlerReturns(strategy)
  THEN [success |-> FALSE, action |-> "none",
        error |-> "Recovery execution failed"]
  ELSE HandlerResult(strategy, cbsAfter, c)

\* dict.get("next_steps", []) of a recovery result
NextSteps(res) ==
  IF "next_steps" \in DOMAIN res THEN res.next_steps ELSE << >>

\* _get_circuit_breaker_status
_get_circuit_breaker_status(cbs) ==
  [c \in DOMAIN cbs |->
     [state |-> cbs[c].state, failure_count |-> cbs[c].failure_count,
      last_failure |-> cbs[c].last_failure]]

\* variant of BreakersAfterReset: every registered breaker is reset
BreakersAfterReset_All(cbs, c) ==
  IF c \in DOMAIN cbs
  THEN [d \in DOMAIN cbs |->
          [cbs[d] EXCEPT !.state = "closed", !.failure_count = 0,
                         !.last_failure = NoTime]]
  ELSE cbs

\* circuit_breakers after reset_circuit_breaker(c)
BreakersAfterReset(cbs, c) ==
  IF c \in DOMAIN cbs
  THEN [cbs EXCEPT ![c] = [@ EXCEPT !.state = "closed", !.failure_count = 0,
                                    !.last_failure = NoTime]]
  ELSE cbs

\* state after ErrorHandlingEngine(), the handlers of the strategies in
\* failing being handlers that raise
ErrInitWith(failing) ==
  /\ now = 0
  /\ ticks = 0
  /\ error_registry = << >>
  /\ error_patterns = << >>
  /\ circuit_breakers = << >>
  /\ recovery_history = 0
  /\ nErrors = 0
  /\ cooledSeen = {}
  /\ failing_handlers = failing
  /\ errRet = [op |-> "none"]

\* state after ErrorHandlingEngine() with the default handlers, none of
\* which raises
ErrInit == ErrInitWith({})

\* no function is under evaluation
FnIdle ==
  /\ args = [op |-> "none"]
  /\ ret = [op |-> "none"]

\* state after PerformanceMonitor()
MonInit ==
  /\ metric_history = << >>
  /\ active_alerts = << >>
  /\ monRet = [op |-> "none"]
  /\ monitoring_active = FALSE
  /\ loops = << >>

\* state after ROITracker()
RoiInit ==
  /\ investment_tracking = << >>
  /\ revenue_tracking = << >>
  /\ conversion_tracking = << >>
  /\ roiRet = [op |-> "none"]
  /\ optimization_history = << >>
  /\ implementing = {}

\* state after WorkflowOrchestrator()
WfInit ==
  /\ active_workflows = << >>
  /\ executing = << >>
  /\ tasks = << >>
  /\ wfRet = [op |-> "none"]
  /\ server_patterns = {}
  /\ server_queue = << >>
  /\ active_campaigns = << >>
  /\ starting = << >>
  /\ srvRet = [op |-> "none"]

\* both engines as constructed, for a pattern with at most MaxBad steps of
\* an invalid stage
Init ==
  \E bad \in { B \in SUBSET Steps : Cardinality(B) <= MaxBad } :
    EngineInit(bad) /\ ErrInit /\ FnIdle /\ MonInit /\ RoiInit /\ WfInit

\* both engines as constructed, for a pattern of valid steps
IdleInit ==
  EngineInit({}) /\ ErrInit /\ FnIdle /\ MonInit /\ RoiInit /\ WfInit

\* the clock advances
Tick(d) ==
  /\ ticks < MaxTicks
  /\ ticks' = ticks + 1
  /\ now' = now + d
  /\ UNCHANGED << error_registry, error_patterns, circuit_breakers,
                  recovery_history, nErrors, cooledSeen, failing_handlers,
                  errRet >>
  /\ UNCHANGED notErrVars

\* ErrorHandlingEngine.handle_error(error, context); the context's timestamp
\* is the time of the call
HandleErrorSteps(e, x) ==
  LET severity == _classify_error_severity(e, x)
      category == _classify_error_category(e)
      id == ErrorId(e, now)
      key == PatternKey(e)
      list == Append(PatternList(error_patterns, key),
                     [timestamp |-> now, component |-> x.component])
      analyzed == AnalyzedStrategy(RETRY, Cardinality(RecentErrors(list, now)))
      strategy == ChosenStrategy(analyzed, severity, category)
      c == BreakerComponent(x)
      cbs == IF strategy = CIRCUIT_BREAKER /\ HandlerReturns(strategy)
             THEN BreakersAfterFailure(circuit_breakers, c, now)
             ELSE circuit_breakers
      res == RecoveryResult(strategy, cbs, c)
      rec == [error_type |-> e.type, error_message |-> e.msg,
              severity |-> severity, category |-> category,
              component |-> x.component, campaign_id |-> x.campaign_id,
              timestamp |-> now, recovery_strategy |-> strategy,
              recovery_attempts |-> IF HandlerReturns(strategy) THEN 1 ELSE 0,
              recovery_success |-> res.success]
  IN /\ nErrors < MaxErrors
     /\ nErrors' = nErrors + 1
     /\ error_registry' =
          [i \in DOMAIN error_registry \cup {id} |->
             IF i = id THEN rec ELSE error_registry[i]]
     /\ error_patterns' =
          [k \in DOMAIN error_patterns \cup {key} |->
             IF k = key THEN list ELSE error_patterns[k]]
     /\ circuit_breakers' = cbs
     /\ recovery_history' =
          IF HandlerReturns(strategy) /\ recovery_history < 1000
          THEN recovery_history + 1 ELSE recovery_history
     /\ cooledSeen' =
          IF strategy = CIRCUIT_BREAKER /\ HandlerReturns(strategy)
          THEN cooledSeen \ {c} ELSE cooledSeen
     /\ errRet' = [op |-> "handle_error", error_id |-> id, severity |-> severity,
                   category |-> category, recovery_strategy |-> strategy,
                   recovery_success |-> res.success,
                   next_steps |-> NextSteps(res), recovery |-> res,
                   component |-> x.component]
     /\ UNCHANGED << now, ticks, failing_handlers >>

\* ErrorHandlingEngine.handle_error(error, context) with no callback
\* registered: the call never suspends
handle_error(e, x) ==
  /\ HandleErrorSteps(e, x)
  /\ UNCHANGED notErrVars

\* ResilientOperationWrapper.resilient: an attempt of the wrapped operation
\* on component c succeeds; the result is returned and the engine is not
\* involved
ResilientSuccess(c) ==
  /\ errRet' = [op |-> "resilient", component |-> c, raised |-> FALSE]
  /\ UNCHANGED << now, ticks, error_registry, error_patterns, circuit_breakers,
                  recovery_history, nErrors, cooledSeen, failing_handlers >>
  /\ UNCHANGED notErrVars

\* ErrorHandlingEngine.get_error_statistics(time_range)
get_error_statistics(range) ==
  LET relevant == { i \in DOMAIN error_registry :
                      error_registry[i].timestamp >= now - range }
      count(field, v) ==
        Cardinality({ i \in relevant : error_registry[i][field] = v })
  IN /\ errRet' =
          IF relevant = {}
          THEN [op |-> "get_error_statistics", total_errors |-> 0]
          ELSE [op |-> "get_error_statistics",
                total_errors |-> Cardinality(relevant),
                recovered |-> count("recovery_success", TRUE),
                errors_by_severity |->
                  [v \in { error_registry[i].severity : i \in relevant } |->
                     count("severity", v)],
                errors_by_category |->
                  [v \in { error_registry[i].category : i \in relevant } |->
                     count("category", v)],
                circuit_breaker_status |->
                  _get_circuit_breaker_status(circuit_breakers)]
     /\ cooledSeen' =
          IF relevant = {} THEN cooledSeen
          ELSE cooledSeen \cup
               { c \in DOMAIN circuit_breakers :
                   /\ circuit_breakers[c].state = "open"
                   /\ now - circuit_breakers[c].last_failure
                        >= circuit_breakers[c].timeout }
     /\ UNCHANGED << now, ticks, error_registry, error_patterns,
                     circuit_breakers, recovery_history, nErrors,
                     failing_handlers >>
     /\ UNCHANGED notErrVars

\* ErrorHandlingEngine.reset_circuit_breaker(component)
reset_circuit_breaker(c) ==
  /\ circuit_breakers' = BreakersAfterReset(circuit_breakers, c)
  /\ cooledSeen' = cooledSeen \ {c}
  /\ errRet' = [op |-> "reset_circuit_breaker", component |-> c,
                value |-> (c \in DOMAIN circuit_breakers)]
  /\ UNCHANGED << now, ticks, error_registry, error_patterns,
                  recovery_history, nErrors, failing_handlers >>
  /\ UNCHANGED notErrVars

(***************************************************************************)
(* Specifications                                                          *)
(***************************************************************************)
\* the execution engine alone; the error engine stays as constructed
EngineNext ==
  \/ start_thinking
  \/ \E s \in Steps : ProcessBegin(s)
  \/ \E s \in Steps : ProcessComplete(s)
  \/ \E s \in Steps : ProcessFail(s)

EngineSpec == Init /\ [][EngineNext]_vars

\* the error engine under errors that take the circuit breaker strategy,
\* the clock advancing by the cool-down of a breaker
BreakerNext ==
  \/ Tick(timeout)
  \/ \E e \in BreakerErrors : \E x \in Contexts : handle_error(e, x)
  \/ \E c \in CtxComponents \ {None} : ResilientSuccess(c)
  \/ \E r \in TimeRanges : get_error_statistics(r)
  \/ \E c \in ResetComponents : reset_circuit_breaker(c)

BreakerSpec == IdleInit /\ [][BreakerNext]_vars

\* the error engine under Network errors and errors mapped to RETRY, the
\* clock advancing by the window of the pattern analysis
PatternNext ==
  \/ Tick(PatternWindow)
  \/ \E e \in PatternErrors : \E x \in Contexts : handle_error(e, x)

PatternSpec == IdleInit /\ [][PatternNext]_vars

\* fairness the event loop gives: an awaited step logic eventually returns or
\* raises. Nothing in the engine takes thinking_queue or calls
\* process_thinking_step, so no fairness is owed to ProcessBegin.
EngineFairSpec ==
  /\ Init
  /\ [][EngineNext]_vars
  /\ \A s \in Steps :
        /\ WF_vars(ProcessComplete(s))
        /\ WF_vars(ProcessFail(s))

(***************************************************************************)
(* Claims about the step/pattern execution engine                          *)
(***************************************************************************)
Started == PatternId \in active_patterns

RECURSIVE TransDeps(_)
\* direct and transitive dependencies of a step
TransDeps(s) == dependencies[s] \cup UNION { TransDeps(d) : d \in dependencies[s] }

\* C1: a step of a started pattern becomes InProgress only in a state where
\* every step listed in its dependencies is Completed.
C1_InProgressOnlyAfterDependencies ==
  [][ \A s \in Steps :
        (Started /\ status[s] # IN_PROGRESS /\ status'[s] = IN_PROGRESS)
          => \A d \in dependencies[s] : status[d] = COMPLETED ]_vars

\* first half of C2: no step becomes Completed while one of its direct or
\* transitive dependencies is a critical step that has failed
C2_CriticalFailureBlocksDependents ==
  [][ \A s \in Steps :
        (Started /\ status[s] # COMPLETED /\ status'[s] = COMPLETED)
          => ~ \E d \in TransDeps(s) :
                  priority[d] = "critical" /\ status[d] = FAILED ]_vars

\* second half of C2: a step being executed that does not depend on a failed
\* non-critical step can complete
C2_NonCriticalFailureLeavesOthers ==
  [] ( \A f \in Steps : \A s \in Steps :
         ( /\ Started
           /\ status[f] = FAILED /\ priority[f] # "critical"
           /\ f \notin TransDeps(s) /\ s # f
           /\ inflight[s] > 0 /\ ~ StepLogicRaises(s) )
         => ENABLED ProcessComplete(s) )

\* C2: after a critical step fails none of its (transitive) dependents
\* reaches Completed, and a non-critical failure does not block the steps
\* that do not depend on it.
C2_CriticalFailurePreventsDependents ==
  C2_CriticalFailureBlocksDependents /\ C2_NonCriticalFailureLeavesOthers

AllTerminal == \A s \in Steps : status[s] \in {COMPLETED, FAILED}

\* C3: once a pattern is started, every one of its steps eventually has a
\* terminal status (the pattern reaches AllCompleted, PartiallyFailed or
\* Aborted). Behaviours that use up the MaxCalls invocations of the model
\* are left out, so that a violation is a started pattern that stays
\* unfinished although further invocations are possible.
C3_StartedPatternTerminates == Started ~> (AllTerminal \/ calls = MaxCalls)

\* C4: a Completed or Failed step never changes status again, and a Pending
\* step never moves directly to Completed or Failed.
C4_StatusLifecycle ==
  [][ Started =>
        \A s \in Steps :
          /\ (status[s] \in {COMPLETED, FAILED} => status'[s] = status[s])
          /\ (status[s] = PENDING => status'[s] \in {PENDING, IN_PROGRESS}) ]_vars

(***************************************************************************)
(* Claims about the circuit breaker registry                               *)
(***************************************************************************)
\* failure_count of the breaker of c, 0 when none is registered
FailureCount(cbs, c) == IF c \in DOMAIN cbs THEN cbs[c].failure_count ELSE 0

\* C5: the breaker of a component is open iff its failure_count has reached
\* failure_threshold, and the recovery that makes the count reach the
\* threshold opens the breaker and returns the open state.
C5_OpenIffThresholdReached ==
  /\ [] ( \A c \in DOMAIN circuit_breakers :
            circuit_breakers[c].state = "open"
              <=> circuit_breakers[c].failure_count
                    >= circuit_breakers[c].failure_threshold )
  /\ [][ \A c \in DOMAIN circuit_breakers' :
           ( /\ FailureCount(circuit_breakers, c) < failure_threshold
             /\ circuit_breakers'[c].failure_count >= failure_threshold )
           => /\ circuit_breakers'[c].state = "open"
              /\ errRet'.op = "handle_error"
              /\ errRet'.recovery_strategy = CIRCUIT_BREAKER
              /\ errRet'.recovery.circuit_state = "open" ]_vars

\* a recovery has just made a failure_count reach the threshold
C5_Witness ==
  /\ errRet.op = "handle_error"
  /\ errRet.recovery_strategy = CIRCUIT_BREAKER
  /\ errRet.recovery.action = "circuit_breaker_open"
  /\ \E c \in DOMAIN circuit_breakers :
       /\ circuit_breakers[c].failure_count = failure_threshold
       /\ circuit_breakers[c].state = "open"

\* C6: a status check made once the cool-down of an open breaker has elapsed
\* reports that breaker as half-open.
C6_HalfOpenAfterCoolDown ==
  [][ \A r \in TimeRanges :
        get_error_statistics(r) =>
          \A c \in DOMAIN circuit_breakers :
            ( /\ circuit_breakers[c].state = "open"
              /\ now - circuit_breakers[c].last_failure
                   >= circuit_breakers[c].timeout )
            => /\ "circuit_breaker_status" \in DOMAIN errRet'
               /\ errRet'.circuit_breaker_status[c].state = "half_open" ]_vars

\* C7: for a breaker that a status check has seen after its cool-down (the
\* half-open breaker), a success of the component closes the breaker and a
\* failure opens it with a failure_count that is not smaller; a breaker
\* leaves the open state for closed only by such a success or by a reset.
C7_HalfOpenOutcomeDecides ==
  [][ \A c \in DOMAIN circuit_breakers :
        /\ (c \in cooledSeen /\ ResilientSuccess(c))
             => circuit_breakers'[c].state = "closed"
        /\ ( /\ c \in cooledSeen
             /\ circuit_breakers'[c].last_failure # circuit_breakers[c].last_failure
             /\ circuit_breakers'[c].last_failure # NoTime )
             => /\ circuit_breakers'[c].state = "open"
                /\ circuit_breakers'[c].failure_count
                     >= circuit_breakers[c].failure_count
        /\ (circuit_breakers[c].state # "closed"
              /\ circuit_breakers'[c].state = "closed")
             => \/ errRet'.op = "reset_circuit_breaker"
                \/ (c \in cooledSeen /\ ResilientSuccess(c)) ]_vars

\* C8: reset_circuit_breaker(c) returns true for a registered breaker and
\* leaves it closed with failure_count 0 and no last_failure; it returns
\* false for an unknown component and registers nothing; the breakers of the
\* other components are unchanged.
C8_ResetCircuitBreaker ==
  [][ errRet'.op = "reset_circuit_breaker" =>
        LET c == errRet'.component IN
          /\ DOMAIN circuit_breakers' = DOMAIN circuit_breakers
          /\ \A d \in DOMAIN circuit_breakers \ {c} :
               circuit_breakers'[d] = circuit_breakers[d]
          /\ IF c \in DOMAIN circuit_breakers
             THEN /\ errRet'.value = TRUE
                  /\ circuit_breakers'[c].state = "closed"
                  /\ circuit_breakers'[c].failure_count = 0
                  /\ circuit_breakers'[c].last_failure = NoTime
             ELSE errRet'.value = FALSE ]_vars

\* an open breaker has just been reset while another breaker has failures
C8_Witness ==
  /\ errRet.op = "reset_circuit_breaker"
  /\ errRet.value = TRUE
  /\ circuit_breakers[errRet.component].state = "closed"
  /\ \E d \in DOMAIN circuit_breakers \ {errRet.component} :
       circuit_breakers[d].failure_count > 0

(***************************************************************************)
(* Claims about pattern detection                                          *)
(***************************************************************************)
\* number of records of the list within the window at time t that carry
\* component c
RecentFor(list, t, c) ==
  Cardinality({ i \in RecentErrors(list, t) : list[i].component = c })

\* C9: the 5th Network error of one type within an hour for component
\* "waha-send" is handled with the CircuitBreaker strategy and leaves the
\* breaker of "waha-send" open.
C9_FifthNetworkErrorOpensBreaker ==
  [][ \A e \in PatternErrors : \A x \in Contexts :
        ( /\ handle_error(e, x)
          /\ _classify_error_category(e) = NETWORK
          /\ x.component = "waha-send"
          /\ RecentFor(error_patterns'[PatternKey(e)], now, "waha-send") = 5 )
        => /\ errRet'.recovery_strategy = CIRCUIT_BREAKER
           /\ "waha-send" \in DOMAIN circuit_breakers'
           /\ circuit_breakers'["waha-send"].state = "open" ]_vars

\* C10: an error whose mapped strategy is Retry is handled with
\* CircuitBreaker when it is at least the 5th error of its (type, category)
\* within the trailing hour, and with Retry otherwise.
C10_RetryEscalatesToCircuitBreaker ==
  [][ \A e \in PatternErrors : \A x \in Contexts :
        ( /\ handle_error(e, x)
          /\ _determine_recovery_strategy(_classify_error_severity(e, x),
                                          _classify_error_category(e)) = RETRY )
        => errRet'.recovery_strategy =
             IF Cardinality(RecentErrors(error_patterns'[PatternKey(e)], now))
                  >= PatternThreshold
             THEN CIRCUIT_BREAKER ELSE RETRY ]_vars

(***************************************************************************)
(* error_handling.py : the classification functions on their own           *)
(***************************************************************************)
\* largest number of classification keywords in one message
MaxWords == 2

\* exception classes handed to the classification
ErrorTypes ==
  {"ConnectionError", "TimeoutError", "ValueError", "TypeError", "KeyError",
   "CampaignError"}

\* the substrings the classification rules look for in the lower-cased
\* message
Keywords ==
  {"authentication", "unauthorized", "rate limit", "429", "database", "sql",
   "api", "http"}

\* the members of ErrorSeverity and of ErrorCategory
Severities == {SEV_LOW, SEV_MEDIUM, SEV_HIGH, SEV_CRITICAL, SEV_FATAL}
Categories ==
  {NETWORK, API, DATABASE, AUTHENTICATION, RATE_LIMITING, DATA_VALIDATION,
   BUSINESS_LOGIC, SYSTEM, EXTERNAL_SERVICE}

\* errors given to _classify_error_category
ClassifiedErrors ==
  { [type |-> t, msg |-> "message", words |-> w] :
      t \in ErrorTypes,
      w \in { W \in SUBSET Keywords : Cardinality(W) <= MaxWords } }

\* the calls that are evaluated
ClassifyCalls ==
  { [op |-> "_classify_error_category", error |-> e] : e \in ClassifiedErrors }
    \cup
  { [op |-> "_determine_recovery_strategy", severity |-> sv, category |-> c] :
      sv \in Severities, c \in Categories }

\* one call is about to be made
ClassifyInit ==
  /\ EngineInit({}) /\ ErrInit /\ MonInit /\ RoiInit /\ WfInit
  /\ args \in ClassifyCalls
  /\ ret = [op |-> "none"]

\* the call of _classify_error_category returns
CallClassifyCategory ==
  /\ args.op = "_classify_error_category"
  /\ ret.op = "none"
  /\ ret' = [op |-> args.op, value |-> _classify_error_category(args.error)]
  /\ UNCHANGED << args, engineVars, errVars, monVars, roiVars, wfVars >>

\* the call of _determine_recovery_strategy returns
CallDetermineStrategy ==
  /\ args.op = "_determine_recovery_strategy"
  /\ ret.op = "none"
  /\ ret' = [op |-> args.op,
             value |-> _determine_recovery_strategy(args.severity, args.category)]
  /\ UNCHANGED << args, engineVars, errVars, monVars, roiVars, wfVars >>

ClassifyNext == CallClassifyCategory \/ CallDetermineStrategy

ClassifySpec == ClassifyInit /\ [][ClassifyNext]_vars

\* C11: the strategy is a function of (severity, category) alone: Fatal
\* severity gives ManualIntervention whatever the category; otherwise
\* Network gives RetryWithBackoff, RateLimiting CircuitBreaker,
\* Authentication Escalation, API Fallback, Database RetryWithBackoff and
\* every other category Retry.
C11_StrategySelection ==
  ret.op = "_determine_recovery_strategy" =>
    LET sv == args.severity
        c == args.category
        st == ret.value
    IN /\ (sv = SEV_FATAL) => (st = MANUAL_INTERVENTION)
       /\ (sv # SEV_FATAL /\ c = NETWORK) => (st = RETRY_WITH_BACKOFF)
       /\ (sv # SEV_FATAL /\ c = RATE_LIMITING) => (st = CIRCUIT_BREAKER)
       /\ (sv # SEV_FATAL /\ c = AUTHENTICATION) => (st = ESCALATION)
       /\ (sv # SEV_FATAL /\ c = API) => (st = FALLBACK)
       /\ (sv # SEV_FATAL /\ c = DATABASE) => (st = RETRY_WITH_BACKOFF)
       /\ (sv # SEV_FATAL /\ c \in {DATA_VALIDATION, BUSINESS_LOGIC, SYSTEM,
                                   EXTERNAL_SERVICE}) => (st = RETRY)

\* a Fatal record of the Network category got ManualIntervention
C11_Witness ==
  /\ ret.op = "_determine_recovery_strategy"
  /\ args.severity = SEV_FATAL
  /\ args.category = NETWORK
  /\ ret.value = MANUAL_INTERVENTION

\* the classification rules an error matches, numbered in the order of the
\* claim: 1 connection/timeout failure, 2 authentication, 3 rate limiting,
\* 4 database, 5 api, 6 validation-type failure, 7 the default
MatchedRules(e) ==
  (IF e.type \in {"ConnectionError", "TimeoutError"} THEN {1} ELSE {})
    \cup (IF "authentication" \in e.words \/ "unauthorized" \in e.words
          THEN {2} ELSE {})
    \cup (IF "rate limit" \in e.words \/ "429" \in e.words THEN {3} ELSE {})
    \cup (IF "database" \in e.words \/ "sql" \in e.words THEN {4} ELSE {})
    \cup (IF "api" \in e.words \/ "http" \in e.words THEN {5} ELSE {})
    \cup (IF e.type \in {"ValueError", "TypeError"} THEN {6} ELSE {})
    \cup {7}

\* the category each rule of the claim assigns
RuleCategory ==
  << NETWORK, AUTHENTICATION, RATE_LIMITING, DATABASE, API, DATA_VALIDATION,
     SYSTEM >>

\* C12: the category of an error is the one of the earliest rule it matches,
\* in the order Network, Authentication, RateLimiting, Database, API,
\* DataValidation, System.
C12_FirstMatchingRuleDecides ==
  ret.op = "_classify_error_category" =>
    LET m == MatchedRules(args.error)
        first == CHOOSE r \in m : \A q \in m : r <= q
    IN ret.value = RuleCategory[first]

\* an error that matches the authentication and the rate limiting rule was
\* classified as Authentication
C12_Witness ==
  /\ ret.op = "_classify_error_category"
  /\ args.error.type = "ValueError"
  /\ args.error.words = {"unauthorized", "429"}
  /\ ret.value = AUTHENTICATION

(***************************************************************************)
(* error_handling.py : the disposition handle_error returns                *)
(***************************************************************************)
\* number of errors handled when the dispositions are examined
MaxDispositions == 2
\* number of strategies whose handler raises
MaxFailing == 1

Unauthorized ==
  [type |-> "CampaignError", msg |-> "unauthorized", words |-> {"unauthorized"}]
ApiUnavailable ==
  [type |-> "CampaignError", msg |-> "api unavailable", words |-> {"api"}]

\* errors of every strategy the classification can select
DispositionErrors ==
  { ConnectionRefused, RateLimited, SendFailed, Unauthorized, ApiUnavailable }

\* the strategies with a recovery action
HandledStrategies ==
  {RETRY, RETRY_WITH_BACKOFF, FALLBACK, CIRCUIT_BREAKER, GRACEFUL_DEGRADATION}

\* the engine as constructed, up to MaxFailing of its handlers raising
DispositionInit ==
  \E failing \in { F \in SUBSET HandledStrategies : Cardinality(F) <= MaxFailing } :
    /\ EngineInit({}) /\ ErrInitWith(failing)
    /\ FnIdle /\ MonInit /\ RoiInit /\ WfInit

DispositionNext ==
  \E e \in DispositionErrors : \E x \in Contexts :
    nErrors < MaxDispositions /\ handle_error(e, x)

DispositionSpec == DispositionInit /\ [][DispositionNext]_vars

\* C13: handle_error returns a disposition with severity, category,
\* strategy, recovery_success and next_steps for every error and context,
\* and no exception reaches the caller: when the handler of the selected
\* strategy raises or the strategy has no handler, the disposition has
\* recovery_success = false.
C13_AlwaysReturnsDisposition ==
  /\ [] ( \A e \in DispositionErrors : \A x \in Contexts :
            (nErrors < MaxErrors) => ENABLED handle_error(e, x) )
  /\ [] ( errRet.op = "handle_error" =>
            /\ {"severity", "category", "recovery_strategy",
                "recovery_success", "next_steps"} \subseteq DOMAIN errRet
            /\ errRet.severity \in Severities
            /\ errRet.category \in Categories
            /\ errRet.recovery_success \in BOOLEAN
            /\ ( \/ errRet.recovery_strategy \notin HandledStrategies
                 \/ errRet.recovery_strategy \in failing_handlers )
               => /\ errRet.recovery_success = FALSE
                  /\ errRet.next_steps = << >> )

\* the last error took a strategy without a handler and an earlier one a
\* strategy whose handler raised; both were answered with a failed recovery
C13_Witness ==
  /\ errRet.op = "handle_error"
  /\ errRet.recovery_strategy = ESCALATION
  /\ errRet.recovery_success = FALSE
  /\ \E i \in DOMAIN error_registry :
       /\ error_registry[i].recovery_strategy \in failing_handlers
       /\ error_registry[i].recovery_success = FALSE

(***************************************************************************)
(* monitoring.py : PerformanceMonitor                                      *)
(* Rates are counted in thousandths (0.05 is 50); ROI is in percent and    *)
(* the cost per acquisition in currency units.                             *)
(***************************************************************************)
\* MetricType values
RESPONSE_RATE == "response_rate"
CONVERSION_RATE == "conversion_rate"
ROI == "roi"
COST_PER_ACQUISITION == "cpa"
MESSAGE_DELIVERY_RATE == "delivery_rate"
ENGAGEMENT_SCORE == "engagement_score"

\* AlertLevel values an alert takes
WARNING == "warning"
CRITICAL == "critical"

\* PerformanceMonitor._setup_default_thresholds
alert_thresholds ==
  [ response_rate |->
      [critical_low |-> 50, warning_low |-> 100, target |-> 220,
       warning_high |-> 350, critical_high |-> 500],
    conversion_rate |->
      [critical_low |-> 20, warning_low |-> 50, target |-> 144,
       warning_high |-> 250, critical_high |-> 400],
    roi |->
      [critical_low |-> 500, warning_low |-> 1000, target |-> 2250,
       warning_high |-> 4000, critical_high |-> 6000],
    cpa |->
      [critical_high |-> 100, warning_high |-> 75, target |-> 50,
       warning_low |-> 25, critical_low |-> 10],
    delivery_rate |->
      [critical_low |-> 850, warning_low |-> 920, target |-> 980,
       warning_high |-> 1000, critical_high |-> 1000] ]

\* the metrics of one sample in the order _collect_metrics lists them
MetricOrder ==
  << RESPONSE_RATE, CONVERSION_RATE, ROI, COST_PER_ACQUISITION,
     MESSAGE_DELIVERY_RATE, ENGAGEMENT_SCORE >>

\* variant of FirstBreach: the warning thresholds are tried before
\* critical_high
FirstBreach_WarningBeforeCriticalHigh(value, thresholds) ==
  IF "critical_low" \in DOMAIN thresholds /\ value < thresholds.critical_low
    THEN "critical_low"
  ELSE IF "warning_low" \in DOMAIN thresholds /\ value < thresholds.warning_low
    THEN "warning_low"
  ELSE IF "warning_high" \in DOMAIN thresholds /\ value > thresholds.warning_high
    THEN "warning_high"
  ELSE IF "critical_high" \in DOMAIN thresholds /\ value > thresholds.critical_high
    THEN "critical_high"
  ELSE None

\* the threshold of _evaluate_threshold's if/elif chain that the value
\* breaches first, None when it breaches none
FirstBreach(value, thresholds) ==
  IF "critical_low" \in DOMAIN thresholds /\ value < thresholds.critical_low
    THEN "critical_low"
  ELSE IF "critical_high" \in DOMAIN thresholds /\ value > thresholds.critical_high
    THEN "critical_high"
  ELSE IF "warning_low" \in DOMAIN thresholds /\ value < thresholds.warning_low
    THEN "warning_low"
  ELSE IF "warning_high" \in DOMAIN thresholds /\ value > thresholds.warning_high
    THEN "warning_high"
  ELSE None

\* alert_level assigned together with the threshold
LevelOf(key) ==
  IF key \in {"critical_low", "critical_high"} THEN CRITICAL ELSE WARNING

\* alert_id of _evaluate_threshold, f"{campaign_id}_{metric}_{timestamp}",
\* as the sequence of its parts
AlertId(c, m, t) == << c, m, t >>

\* existing_alert_key of _handle_alert, f"{metric}_{level}", as the sequence
\* of its parts
ExistingAlertKey(alert) == << alert.metric_type, alert.level >>

\* _evaluate_threshold's return value: the Alert, or None (raised = FALSE)
_evaluate_threshold(c, m, value, thresholds, t) ==
  LET key == FirstBreach(value, thresholds)
  IN IF key = None
     THEN [raised |-> FALSE]
     ELSE [raised |-> TRUE, id |-> AlertId(c, m, t), level |-> LevelOf(key),
           metric_type |-> m, current_value |-> value,
           threshold_value |-> thresholds[key], acknowledged |-> FALSE,
           actions_taken |-> << >>]

\* actions of _take_automatic_action
AutomaticActions(alert) ==
  IF alert.current_value >= alert.threshold_value THEN << >>
  ELSE IF alert.metric_type = RESPONSE_RATE
    THEN << "adjust_message_timing", "increase_personalization",
            "review_message_content" >>
  ELSE IF alert.metric_type = CONVERSION_RATE
    THEN << "strengthen_call_to_action", "adjust_offer_strategy",
            "review_target_segments" >>
  ELSE IF alert.metric_type = MESSAGE_DELIVERY_RATE
    THEN << "check_whatsapp_connection", "reduce_sending_rate",
            "validate_phone_numbers" >>
  ELSE << >>

\* active_alerts after _handle_alert(alert): the alert is stored under its
\* id unless existing_alert_key is a key of active_alerts
_handle_alert(alerts, alert) ==
  IF ExistingAlertKey(alert) \in DOMAIN alerts
  THEN alerts
  ELSE LET stored ==
             IF alert.level = CRITICAL
             THEN [alert EXCEPT !.actions_taken = AutomaticActions(alert)]
             ELSE alert
       IN [i \in DOMAIN alerts \cup {alert.id} |->
             IF i = alert.id THEN stored ELSE alerts[i]]

RECURSIVE AlertsAfterCheck(_, _, _, _, _, _)
\* active_alerts after _check_alert_conditions(c, metrics) at time t, from
\* the n-th metric of the sample on
AlertsAfterCheck(alerts, c, metrics, ths, t, n) ==
  IF n > Len(MetricOrder) THEN alerts
  ELSE LET m == MetricOrder[n]
           alert == _evaluate_threshold(c, m, metrics[m], ths[m], t)
           next == IF m \in DOMAIN metrics /\ m \in DOMAIN ths /\ alert.raised
                   THEN _handle_alert(alerts, alert)
                   ELSE alerts
       IN AlertsAfterCheck(next, c, metrics, ths, t, n + 1)

\* the alerts _evaluate_threshold returns for the metrics of a sample
EvaluatedAlerts(c, metrics, ths, t) ==
  { _evaluate_threshold(c, m, metrics[m], ths[m], t) :
      m \in DOMAIN metrics \cap DOMAIN ths }

\* metric_history[key] of the defaultdict
HistoryOf(history, key) ==
  IF key \in DOMAIN history THEN history[key] ELSE << >>

\* deque(maxlen=1000): the capacity of the ring of a metric key
maxlen == 1000

\* variant of DequeAppend: a list without a capacity
DequeAppend_Unbounded(q, point) == Append(q, point)

\* deque(maxlen=1000).append
DequeAppend(q, point) ==
  IF Len(q) < maxlen THEN Append(q, point) ELSE Append(Tail(q), point)

\* metric_history after _process_metric for every metric of the sample
HistoryAfterSample(history, c, metrics, t) ==
  LET keys == { << c, m >> : m \in DOMAIN metrics }
  IN [k \in DOMAIN history \cup keys |->
        IF k \in keys
        THEN DequeAppend(HistoryOf(history, k),
                         [timestamp |-> t, value |-> metrics[k[2]]])
        ELSE history[k]]

\* campaigns that are monitored
Campaigns == {"campaign-1", "campaign-2"}

\* a sample on target, as _collect_metrics centres it
Nominal ==
  [ response_rate |-> 220, conversion_rate |-> 144, roi |-> 2250,
    cpa |-> 50, delivery_rate |-> 980, engagement_score |-> 750 ]

\* samples of one monitoring iteration: on target, a response rate below
\* the warning and below the critical threshold, an ROI above warning_high
Samples ==
  { Nominal,
    [Nominal EXCEPT !.response_rate = 80],
    [Nominal EXCEPT !.response_rate = 30],
    [Nominal EXCEPT !.roi = 4500] }

\* asyncio.sleep(30) of _monitoring_loop
LoopPeriod == 30

\* alert ids given to acknowledge_alert that are not registered
UnknownAlerts == { AlertId("campaign-1", ROI, 1) }

\* one iteration of _monitoring_loop(c): the sample is stored, then checked
\* against the thresholds. The iterations of a campaign's loop are a sleep
\* apart.
MonitoringIteration(c, metrics) ==
  LET first == << c, MetricOrder[1] >>
      seen == HistoryOf(metric_history, first)
  IN /\ IF seen = << >> THEN TRUE ELSE seen[Len(seen)].timestamp < now
     /\ metric_history' = HistoryAfterSample(metric_history, c, metrics, now)
     /\ active_alerts' =
          AlertsAfterCheck(active_alerts, c, metrics, alert_thresholds, now, 1)
     /\ monRet' = [op |-> "_check_alert_conditions", campaign_id |-> c,
                   alerts |-> { a \in EvaluatedAlerts(c, metrics,
                                         alert_thresholds, now) : a.raised }]
     /\ UNCHANGED << loopVars, engineVars, errVars, fnVars, roiVars, wfVars >>

\* PerformanceMonitor.acknowledge_alert(alert_id)
acknowledge_alert(id) ==
  /\ active_alerts' =
       IF id \in DOMAIN active_alerts
       THEN [active_alerts EXCEPT ![id] = [@ EXCEPT !.acknowledged = TRUE]]
       ELSE active_alerts
  /\ monRet' = [op |-> "acknowledge_alert", alert_id |-> id,
                value |-> (id \in DOMAIN active_alerts)]
  /\ UNCHANGED << metric_history, loopVars, engineVars, errVars, fnVars,
                  roiVars, wfVars >>

MonitorNext ==
  \/ Tick(LoopPeriod)
  \/ \E c \in Campaigns : \E metrics \in Samples : MonitoringIteration(c, metrics)
  \/ \E id \in DOMAIN active_alerts \cup UnknownAlerts : acknowledge_alert(id)

MonitorSpec == IdleInit /\ [][MonitorNext]_vars

\* the unacknowledged alerts of a campaign for a (metric type, level) key
Unacknowledged(alerts, c, m, level) ==
  { i \in DOMAIN alerts :
      /\ i[1] = c
      /\ alerts[i].metric_type = m
      /\ alerts[i].level = level
      /\ ~ alerts[i].acknowledged }

\* C14: after a sample of a campaign breaches a threshold, exactly one
\* unacknowledged alert of that campaign is active for the (metric type,
\* level) of the breach: a second breaching sample is suppressed while the
\* alert is unacknowledged, and a new alert is raised once it has been
\* acknowledged.
C14_AlertDeduplication ==
  [][ \A c \in Campaigns : \A metrics \in Samples :
        MonitoringIteration(c, metrics) =>
          \A a \in monRet'.alerts :
            Cardinality(Unacknowledged(active_alerts', c, a.metric_type,
                                       a.level)) = 1 ]_vars

(***************************************************************************)
(* monitoring.py : the evaluation of one sample against thresholds         *)
(***************************************************************************)
\* thresholds take the values 1..MaxLevel, samples the values 0..MaxLevel+1
MaxLevel == 3

\* the keys _evaluate_threshold looks for, in the order of the claim
ThresholdOrder ==
  << "critical_low", "critical_high", "warning_low", "warning_high" >>

\* threshold dicts: every subset of the four keys may be configured
ThresholdDicts ==
  UNION { [K -> 1..MaxLevel] :
            K \in SUBSET { ThresholdOrder[i] : i \in 1..4 } }

\* the calls that are evaluated, for one metric of one campaign
ThresholdCalls ==
  { [op |-> o, campaign_id |-> "campaign-1", metric_type |-> RESPONSE_RATE,
     value |-> v, thresholds |-> th] :
      o \in {"_evaluate_threshold", "_check_alert_conditions"},
      v \in 0..(MaxLevel + 1), th \in ThresholdDicts }

\* a monitor without alerts, one call about to be made
ThresholdInit ==
  /\ EngineInit({}) /\ ErrInit /\ MonInit /\ RoiInit /\ WfInit
  /\ args \in ThresholdCalls
  /\ ret = [op |-> "none"]

\* the call of _evaluate_threshold returns
CallEvaluateThreshold ==
  /\ args.op = "_evaluate_threshold"
  /\ ret.op = "none"
  /\ ret' = [op |-> args.op,
             value |-> _evaluate_threshold(args.campaign_id, args.metric_type,
                                           args.value, args.thresholds, now)]
  /\ UNCHANGED << args, engineVars, errVars, monVars, roiVars, wfVars >>

\* the call of _check_alert_conditions for a sample of the one metric
\* returns, the thresholds of the call being the configured ones
CallCheckAlertConditions ==
  /\ args.op = "_check_alert_conditions"
  /\ ret.op = "none"
  /\ active_alerts' =
       AlertsAfterCheck(active_alerts, args.campaign_id,
                        [m \in {args.metric_type} |-> args.value],
                        [m \in {args.metric_type} |-> args.thresholds], now, 1)
  /\ ret' = [op |-> args.op]
  /\ UNCHANGED << args, metric_history, monRet, loopVars, engineVars,
                  errVars, roiVars, wfVars >>

ThresholdNext == CallEvaluateThreshold \/ CallCheckAlertConditions

ThresholdSpec == ThresholdInit /\ [][ThresholdNext]_vars

\* the value breaches the configured threshold of the key
Breaches(value, thresholds, key) ==
  /\ key \in DOMAIN thresholds
  /\ IF key \in {"critical_low", "warning_low"}
     THEN value < thresholds[key]
     ELSE value > thresholds[key]

\* positions in ThresholdOrder of the thresholds the call's value breaches
BreachedPositions ==
  { i \in 1..4 : Breaches(args.value, args.thresholds, ThresholdOrder[i]) }

\* the alert is the one the earliest breached threshold determines
DeterminedByFirst(alert) ==
  LET i == CHOOSE p \in BreachedPositions : \A q \in BreachedPositions : p <= q
  IN /\ alert.level = (IF i <= 2 THEN CRITICAL ELSE WARNING)
     /\ alert.threshold_value = args.thresholds[ThresholdOrder[i]]
     /\ alert.current_value = args.value
     /\ alert.metric_type = args.metric_type

\* C15: the thresholds are tried in the order critical_low, critical_high,
\* warning_low, warning_high and the first one breached alone gives the
\* alert's level and threshold value; checking a sample leaves at most one
\* alert for the metric, and none when no configured threshold is breached.
C15_FirstBreachDecides ==
  /\ ret.op = "_evaluate_threshold" =>
       IF BreachedPositions = {}
       THEN ~ ret.value.raised
       ELSE ret.value.raised /\ DeterminedByFirst(ret.value)
  /\ ret.op = "_check_alert_conditions" =>
       IF BreachedPositions = {}
       THEN active_alerts = << >>
       ELSE /\ Cardinality(DOMAIN active_alerts) = 1
            /\ \A i \in DOMAIN active_alerts : DeterminedByFirst(active_alerts[i])

\* a value above critical_high and below warning_low was checked and left
\* one critical alert carrying the critical_high threshold
C15_Witness ==
  /\ ret.op = "_check_alert_conditions"
  /\ {2, 3} \subseteq BreachedPositions
  /\ 1 \notin BreachedPositions
  /\ \E i \in DOMAIN active_alerts :
       /\ active_alerts[i].level = CRITICAL
       /\ active_alerts[i].threshold_value = args.thresholds.critical_high

(***************************************************************************)
(* monitoring.py : PerformanceMonitor.get_performance_summary              *)
(* Quotients of numbers are kept exact, as fractions in lowest terms; the  *)
(* rounding of floating point arithmetic is not modelled.                  *)
(***************************************************************************)
\* longest metric series that is summarised
MaxSeries == 3
\* largest value of a series
MaxValue == 3

Abs(n) == IF n < 0 THEN -n ELSE n

RECURSIVE GCD(_, _)
GCD(a, b) == IF b = 0 THEN a ELSE GCD(b, a % b)

\* the quotient n / d for d > 0, as << numerator, denominator >> in lowest
\* terms
Rat(n, d) == LET g == GCD(Abs(n), d) IN << n \div g, d \div g >>

RECURSIVE Sum(_)
\* sum(list)
Sum(list) == IF list = << >> THEN 0 ELSE Head(list) + Sum(Tail(list))

\* sum of i * values[i + 1] over the positions i = 0 .. len - 1 that
\* np.polyfit(range(len(values)), values, 1) fits against
RECURSIVE WeightedSum(_, _)
WeightedSum(values, n) ==
  IF n = 0 THEN 0 ELSE (n - 1) * values[n] + WeightedSum(values, n - 1)

\* sum of the squares of the values
RECURSIVE SquareSum(_)
SquareSum(list) ==
  IF list = << >> THEN 0 ELSE Head(list) * Head(list) + SquareSum(Tail(list))

\* numerator and denominator of the least squares slope np.polyfit returns
\* for the positions 0 .. n - 1
SlopeNum(values) ==
  Len(values) * WeightedSum(values, Len(values))
    - Sum([i \in 1..Len(values) |-> i - 1]) * Sum(values)
SlopeDen(values) ==
  Len(values) * SquareSum([i \in 1..Len(values) |-> i - 1])
    - Sum([i \in 1..Len(values) |-> i - 1]) * Sum([i \in 1..Len(values) |-> i - 1])

\* n^2 times the variance np.std(values) is the root of
ScaledVariance(values) ==
  Len(values) * SquareSum(values) - Sum(values) * Sum(values)

\* abs(trend) > np.std(values) * 0.5, compared through the squares
IsStrong(values) ==
  4 * Len(values) * Len(values) * SlopeNum(values) * SlopeNum(values)
    > SlopeDen(values) * SlopeDen(values) * ScaledVariance(values)

\* summary["trends"][metric] of get_performance_summary
Trend(values) ==
  [direction |-> IF SlopeNum(values) > 0 THEN "increasing" ELSE "decreasing",
   slope |-> Rat(SlopeNum(values), SlopeDen(values)),
   strength |-> IF IsStrong(values) THEN "strong" ELSE "weak"]

\* the values of the points of campaign c's metric m that are not older
\* than time_range at time t
RecentValues(history, c, m, range, t) ==
  LET points == HistoryOf(history, << c, m >>)
      recent == SelectSeq(points, LAMBDA p : p.timestamp >= t - range)
  IN [i \in 1..Len(recent) |-> recent[i].value]

\* largest and smallest value of a non-empty list
Max(values) == CHOOSE v \in { values[i] : i \in 1..Len(values) } :
                 \A i \in 1..Len(values) : values[i] <= v
Min(values) == CHOOSE v \in { values[i] : i \in 1..Len(values) } :
                 \A i \in 1..Len(values) : v <= values[i]

\* the dict get_performance_summary(c, time_range) returns at time t; the
\* standard deviation of a metric is left out
PerformanceSummary(history, alerts, c, range, t) ==
  LET metricsOf == { m \in { MetricOrder[i] : i \in 1..Len(MetricOrder) } :
                       RecentValues(history, c, m, range, t) # << >> }
      trended == { m \in metricsOf :
                     Len(RecentValues(history, c, m, range, t)) > 1 }
      open(level) == Cardinality({ i \in DOMAIN alerts :
                                     /\ level \in {"any", alerts[i].level}
                                     /\ ~ alerts[i].acknowledged })
  IN [op |-> "get_performance_summary", campaign_id |-> c,
      alerts |-> [active |-> open("any"), critical |-> open(CRITICAL),
                  warnings |-> open(WARNING)],
      metrics |-> [m \in metricsOf |->
                     LET values == RecentValues(history, c, m, range, t)
                     IN [current |-> values[Len(values)],
                         average |-> Rat(Sum(values), Len(values)),
                         min |-> Min(values), max |-> Max(values),
                         count |-> Len(values)]],
      trends |-> [m \in trended |->
                    Trend(RecentValues(history, c, m, range, t))]]

\* PerformanceMonitor.get_performance_summary(campaign_id, time_range)
get_performance_summary(c, range) ==
  /\ monRet' = PerformanceSummary(metric_history, active_alerts, c, range, now)
  /\ UNCHANGED << metric_history, active_alerts, loopVars, engineVars,
                  errVars, fnVars, roiVars, wfVars >>

\* the series of response rates a monitoring loop has recorded
Series ==
  UNION { [1..n -> 0..MaxValue] : n \in 2..MaxSeries }

\* the history that holds the series, its samples a loop period apart and
\* the last one taken now
SeriesHistory(c, m, values, t) ==
  [k \in { << c, m >> } |->
     [i \in 1..Len(values) |->
        [timestamp |-> t - (Len(values) - i) * LoopPeriod, value |-> values[i]]]]

\* a monitor that has recorded one series for campaign-1
TrendInit ==
  \E values \in Series :
    /\ EngineInit({}) /\ ErrInit /\ FnIdle /\ RoiInit /\ WfInit
    /\ metric_history = SeriesHistory("campaign-1", RESPONSE_RATE, values, 0)
    /\ active_alerts = << >>
    /\ monRet = [op |-> "none"]
    /\ monitoring_active = FALSE
    /\ loops = << >>

TrendNext ==
  \E r \in TimeRanges : get_performance_summary("campaign-1", r)

TrendSpec == TrendInit /\ [][TrendNext]_vars

\* the recorded response rates of campaign-1
RecordedSeries ==
  LET points == metric_history[<< "campaign-1", RESPONSE_RATE >>]
  IN [i \in 1..Len(points) |-> points[i].value]

\* C19: in the summary the direction of a trend is the sign of the fitted
\* slope: a strictly increasing series of at least two values is reported
\* as "increasing", and a constant series has slope 0 and strength "weak"
\* and is reported neither as increasing nor as decreasing.
C19_TrendDirectionIsSignOfSlope ==
  monRet.op = "get_performance_summary" =>
    LET values == RecordedSeries
        trend == monRet.trends[RESPONSE_RATE]
    IN /\ (\A i \in 1..(Len(values) - 1) : values[i] < values[i + 1])
            => trend.direction = "increasing"
       /\ (\A i \in 1..(Len(values) - 1) : values[i] = values[i + 1])
            => /\ trend.slope = Rat(0, 1)
               /\ trend.strength = "weak"
               /\ trend.direction \notin {"increasing", "decreasing"}

(***************************************************************************)
(* monitoring.py : ROITracker and OptimizationEngine                       *)
(***************************************************************************)
\* number of entries recorded in the ledgers
MaxEntries == 3

\* investment_tracking[c] / revenue_tracking[c] / conversion_tracking[c] as
\* calculate_real_time_roi reads them (.get(campaign_id, []))
LedgerOf(tracking, c) == IF c \in DOMAIN tracking THEN tracking[c] ELSE << >>

\* variant of AppendTo: the campaign's list is replaced by the new entry
AppendTo_Replace(tracking, c, entry) ==
  [k \in DOMAIN tracking \cup {c} |->
     IF k = c THEN << entry >> ELSE tracking[k]]

\* tracking after tracking[c].append(entry) on the defaultdict
AppendTo(tracking, c, entry) ==
  [k \in DOMAIN tracking \cup {c} |->
     IF k = c THEN Append(LedgerOf(tracking, c), entry) ELSE tracking[k]]

\* variant of RoiPercentage: the revenue, not the profit, is related to the
\* investment
RoiPercentage_OfRevenue(investment, revenue) ==
  IF investment > 0 THEN Rat(revenue * 100, investment) ELSE Rat(0, 1)

\* roi_percentage of calculate_real_time_roi
RoiPercentage(investment, revenue) ==
  IF investment > 0 THEN Rat((revenue - investment) * 100, investment)
  ELSE Rat(0, 1)

\* roi_ratio of calculate_real_time_roi
RoiRatio(investment, revenue) ==
  IF investment > 0 THEN Rat(revenue, investment) ELSE Rat(0, 1)

\* the seconds of one day
Day == 86400

\* timedelta.days: whole days of a number of seconds
Days(seconds) == seconds \div Day

\* the revenues of a list of conversion records
RevenuesOf(conversions) ==
  [i \in 1..Len(conversions) |-> conversions[i].revenue]

\* the last n entries of a list (list[-n:])
LastN(list, n) ==
  IF Len(list) <= n THEN list ELSE SubSeq(list, Len(list) - n + 1, Len(list))

\* the first n entries of a list (list[:n])
FirstN(list, n) == IF Len(list) <= n THEN list ELSE SubSeq(list, 1, n)

\* _calculate_roi_breakdown
_calculate_roi_breakdown(conversions) ==
  LET revenues == RevenuesOf(conversions)
      of(segment) ==
        SelectSeq(revenues,
                  LAMBDA r : segment = (IF r >= 150 THEN "high_value"
                                        ELSE IF r >= 80 THEN "medium_value"
                                        ELSE "low_value"))
  IN [total_conversions |-> Len(conversions),
      average_conversion_value |->
        IF conversions = << >> THEN Rat(0, 1)
        ELSE Rat(Sum(revenues), Len(revenues)),
      conversion_rate |-> Rat(Len(conversions), 650),
      high_value_revenue |-> Sum(of("high_value")),
      medium_value_revenue |-> Sum(of("medium_value")),
      low_value_revenue |-> Sum(of("low_value")),
      high_value_conversions |-> Len(of("high_value")),
      medium_value_conversions |-> Len(of("medium_value")),
      low_value_conversions |-> Len(of("low_value"))]

\* _generate_roi_projections at time t; the confidence level (a quotient of
\* standard deviation and mean) is left out
_generate_roi_projections(investments, revenues, conversions, t) ==
  IF Len(conversions) < 10
  THEN [projected_final_roi |-> Rat(0, 1), projected_total_revenue |-> Rat(0, 1),
        time_to_target |-> 0]
  ELSE LET days_elapsed == Days(t - conversions[1].timestamp)
           days_remaining == IF 21 - days_elapsed > 0 THEN 21 - days_elapsed ELSE 0
           divisor == IF days_elapsed > 1 THEN days_elapsed ELSE 1
           recent == Sum(RevenuesOf(LastN(conversions, 10)))
           \* projected_total_revenue * divisor
           scaledTotal == Sum(revenues) * divisor + recent * days_remaining
           investment == Sum(investments)
       IN [projected_final_roi |->
             IF investment > 0
             THEN Rat((scaledTotal - investment * divisor) * 100,
                      investment * divisor)
             ELSE Rat(0, 1),
           projected_total_revenue |-> Rat(scaledTotal, divisor),
           time_to_target |-> days_remaining,
           daily_revenue_trend |-> Rat(recent, divisor)]

\* the ROICalculation calculate_real_time_roi(c) builds at time t
ROICalculation(investments, revenues, conversions, c, t) ==
  [op |-> "calculate_real_time_roi", campaign_id |-> c,
   total_investment |-> Sum(investments),
   total_revenue |-> Sum(revenues),
   net_profit |-> Sum(revenues) - Sum(investments),
   roi_percentage |-> RoiPercentage(Sum(investments), Sum(revenues)),
   roi_ratio |-> RoiRatio(Sum(investments), Sum(revenues)),
   calculation_timestamp |-> t,
   breakdown |-> _calculate_roi_breakdown(conversions),
   projections |->
     _generate_roi_projections(investments, revenues, conversions, t)]

\* ROITracker.track_investment(campaign_id, amount)
track_investment(c, amount) ==
  /\ investment_tracking' = AppendTo(investment_tracking, c, amount)
  /\ roiRet' = [op |-> "track_investment", campaign_id |-> c,
                amount |-> amount,
                cumulative |-> Sum(LedgerOf(investment_tracking, c)) + amount]
  /\ UNCHANGED << revenue_tracking, conversion_tracking >>
  /\ UNCHANGED << optVars, engineVars, errVars, fnVars, monVars, wfVars >>

\* ROITracker.track_conversion(campaign_id, student_id, revenue)
track_conversion(c, student, revenue) ==
  /\ revenue_tracking' = AppendTo(revenue_tracking, c, revenue)
  /\ conversion_tracking' =
       AppendTo(conversion_tracking, c,
                [student_id |-> student, revenue |-> revenue,
                 conversion_type |-> "reactivation", timestamp |-> now,
                 campaign_id |-> c])
  /\ roiRet' = [op |-> "track_conversion", campaign_id |-> c,
                student_id |-> student, revenue |-> revenue]
  /\ UNCHANGED investment_tracking
  /\ UNCHANGED << optVars, engineVars, errVars, fnVars, monVars, wfVars >>

\* ROITracker.calculate_real_time_roi(campaign_id)
calculate_real_time_roi(c) ==
  /\ roiRet' = ROICalculation(LedgerOf(investment_tracking, c),
                              LedgerOf(revenue_tracking, c),
                              LedgerOf(conversion_tracking, c), c, now)
  /\ UNCHANGED << investment_tracking, revenue_tracking, conversion_tracking >>
  /\ UNCHANGED << optVars, engineVars, errVars, fnVars, monVars, wfVars >>

RECURSIVE EntriesIn(_, _)
\* number of entries in the lists of the campaigns of S
EntriesIn(tracking, S) ==
  IF S = {} THEN 0
  ELSE LET c == CHOOSE x \in S : TRUE
       IN Len(tracking[c]) + EntriesIn(tracking, S \ {c})

\* number of entries in all lists of a ledger
Entries(tracking) == EntriesIn(tracking, DOMAIN tracking)

\* amounts invested and revenues of a conversion
Amounts == {50, 100}
Revenues == {300}
Students == {"student-1"}

RoiNext ==
  \/ \E c \in Campaigns : \E amount \in Amounts :
       /\ Entries(investment_tracking) + Entries(revenue_tracking) < MaxEntries
       /\ track_investment(c, amount)
  \/ \E c \in Campaigns : \E student \in Students : \E revenue \in Revenues :
       /\ Entries(investment_tracking) + Entries(revenue_tracking) < MaxEntries
       /\ track_conversion(c, student, revenue)
  \/ \E c \in Campaigns : calculate_real_time_roi(c)

RoiSpec == IdleInit /\ [][RoiNext]_vars

\* C16: the ROI% and the net profit calculate_real_time_roi returns are
\* determined by the campaign's investment and revenue lists: with total
\* investment I > 0 and total revenue R, ROI% = (R - I) / I * 100 and net
\* profit = R - I; investment [100, 50] and revenue [300] give 100 and 150.
C16_RoiFromLedgerTotals ==
  roiRet.op = "calculate_real_time_roi" =>
    LET investments == LedgerOf(investment_tracking, roiRet.campaign_id)
        revenues == LedgerOf(revenue_tracking, roiRet.campaign_id)
        I == Sum(investments)
        R == Sum(revenues)
    IN /\ roiRet.net_profit = R - I
       /\ I > 0 => roiRet.roi_percentage[1] * I
                     = (R - I) * 100 * roiRet.roi_percentage[2]
       /\ (investments = << 100, 50 >> /\ revenues = << 300 >>)
            => /\ roiRet.roi_percentage = << 100, 1 >>
               /\ roiRet.net_profit = 150

\* the ROI of a campaign with investment [100, 50] and revenue [300] was
\* calculated
C16_Witness ==
  /\ roiRet.op = "calculate_real_time_roi"
  /\ LedgerOf(investment_tracking, roiRet.campaign_id) = << 100, 50 >>
  /\ LedgerOf(revenue_tracking, roiRet.campaign_id) = << 300 >>
  /\ roiRet.roi_percentage = << 100, 1 >>

\* the list old is a prefix of the list new
IsPrefix(old, new) ==
  /\ Len(old) <= Len(new)
  /\ \A i \in 1..Len(old) : new[i] = old[i]

\* C17: the ROI ledger is append-only and per campaign: a step appends at
\* most one entry to each list of one campaign and keeps all earlier
\* entries, track_investment and track_conversion touch only the lists of
\* the campaign they name, calculate_real_time_roi changes no list, and the
\* revenue list and the conversion list of a campaign have equal length.
C17_LedgerAppendOnly ==
  /\ [][ \A c \in Campaigns :
           /\ IsPrefix(LedgerOf(investment_tracking, c),
                       LedgerOf(investment_tracking', c))
           /\ IsPrefix(LedgerOf(revenue_tracking, c),
                       LedgerOf(revenue_tracking', c))
           /\ IsPrefix(LedgerOf(conversion_tracking, c),
                       LedgerOf(conversion_tracking', c))
           /\ Len(LedgerOf(investment_tracking', c))
                + Len(LedgerOf(revenue_tracking', c))
                <= Len(LedgerOf(investment_tracking, c))
                   + Len(LedgerOf(revenue_tracking, c)) + 1
           /\ (roiRet'.op \in {"track_investment", "track_conversion"}
                 /\ roiRet'.campaign_id # c)
                => /\ LedgerOf(investment_tracking', c)
                        = LedgerOf(investment_tracking, c)
                   /\ LedgerOf(revenue_tracking', c)
                        = LedgerOf(revenue_tracking, c)
                   /\ LedgerOf(conversion_tracking', c)
                        = LedgerOf(conversion_tracking, c)
           /\ (roiRet'.op = "track_investment" /\ roiRet'.campaign_id = c)
                => /\ LedgerOf(investment_tracking', c)
                        = Append(LedgerOf(investment_tracking, c), roiRet'.amount)
                   /\ revenue_tracking' = revenue_tracking
                   /\ conversion_tracking' = conversion_tracking
           /\ (roiRet'.op = "track_conversion" /\ roiRet'.campaign_id = c)
                => /\ LedgerOf(revenue_tracking', c)
                        = Append(LedgerOf(revenue_tracking, c), roiRet'.revenue)
                   /\ Len(LedgerOf(conversion_tracking', c))
                        = Len(LedgerOf(conversion_tracking, c)) + 1
                   /\ investment_tracking' = investment_tracking
           /\ roiRet'.op = "calculate_real_time_roi"
                => /\ investment_tracking' = investment_tracking
                   /\ revenue_tracking' = revenue_tracking
                   /\ conversion_tracking' = conversion_tracking ]_vars
  /\ [] ( \A c \in Campaigns :
            Len(LedgerOf(revenue_tracking, c))
              = Len(LedgerOf(conversion_tracking, c)) )

\* a second investment of campaign-1 was recorded while campaign-2 holds a
\* conversion
C17_Witness ==
  /\ roiRet.op = "track_investment"
  /\ roiRet.campaign_id = "campaign-1"
  /\ Len(LedgerOf(investment_tracking, "campaign-1")) = 2
  /\ Len(LedgerOf(conversion_tracking, "campaign-2")) = 1

(***************************************************************************)
(* monitoring.py : OptimizationEngine.analyze_optimization_opportunities   *)
(***************************************************************************)
\* the fraction q is smaller than the integer n
RatLess(q, n) == q[1] < n * q[2]
\* the fraction q is greater than the integer n
RatGreater(q, n) == q[1] > n * q[2]

\* variant of ImmediateActions: the conversion-rate action is proposed for
\* an ROI above, not below, 1500
ImmediateActions_AboveTarget(roi, summary) ==
  (IF RatGreater(roi.roi_percentage, 1500)
   THEN << "improve_conversion_rate" >> ELSE << >>)
    \o (IF RESPONSE_RATE \in DOMAIN summary.metrics
            /\ summary.metrics[RESPONSE_RATE].current < 150
        THEN << "optimize_message_timing" >> ELSE << >>)

\* opportunities["immediate_actions"]: the actions of the entries, in order
ImmediateActions(roi, summary) ==
  (IF RatLess(roi.roi_percentage, 1500)
   THEN << "improve_conversion_rate" >> ELSE << >>)
    \o (IF RESPONSE_RATE \in DOMAIN summary.metrics
            /\ summary.metrics[RESPONSE_RATE].current < 150
        THEN << "optimize_message_timing" >> ELSE << >>)

\* opportunities["risk_mitigation"]: the delivery metrics are looked up
\* under "message_delivery_rate", while the summary is keyed by the values
\* of MetricType, "delivery_rate" for the delivery rate
RiskMitigation(summary) ==
  IF "message_delivery_rate" \in DOMAIN summary.metrics
       /\ summary.metrics["message_delivery_rate"].current < 950
  THEN << "investigate_delivery_issues" >> ELSE << >>

\* opportunities["strategic_improvements"]: the metrics with a strong
\* declining trend, in the order of the summary
StrategicImprovements(summary) ==
  SelectSeq(MetricOrder,
            LAMBDA m : /\ m \in DOMAIN summary.trends
                       /\ summary.trends[m].direction = "decreasing"
                       /\ summary.trends[m].strength = "strong")

\* opportunities["growth_opportunities"]
GrowthOpportunities(roi) ==
  IF RatGreater(roi.roi_percentage, 2000)
  THEN << "scale_successful_segments" >> ELSE << >>

\* the weights _calculate_priority_score gives the opportunity classes
ClassWeight ==
  [immediate_actions |-> 10, risk_mitigation |-> 8,
   strategic_improvements |-> 6, growth_opportunities |-> 4]

\* _calculate_priority_score
_calculate_priority_score(immediate, risk, strategic, growth) ==
  LET score == Len(immediate) * ClassWeight.immediate_actions
                 + Len(risk) * ClassWeight.risk_mitigation
                 + Len(strategic) * ClassWeight.strategic_improvements
                 + Len(growth) * ClassWeight.growth_opportunities
  IN IF score < 100 THEN score ELSE 100

\* the recommendations of one class: the urgency label, the action, and the
\* class the item came from
Labelled(label, class, items) ==
  [i \in 1..Len(items) |->
     [label |-> label, class |-> class, action |-> items[i]]]

\* _generate_recommendations
_generate_recommendations(immediate, risk, strategic, growth) ==
  Labelled("URGENT", "risk_mitigation", risk)
    \o Labelled("HIGH", "immediate_actions", immediate)
    \o Labelled("MEDIUM", "strategic_improvements", FirstN(strategic, 3))
    \o Labelled("GROWTH", "growth_opportunities", FirstN(growth, 2))

\* OptimizationEngine.analyze_optimization_opportunities(campaign_id)
analyze_optimization_opportunities(c) ==
  LET roi == ROICalculation(LedgerOf(investment_tracking, c),
                            LedgerOf(revenue_tracking, c),
                            LedgerOf(conversion_tracking, c), c, now)
      summary == PerformanceSummary(metric_history, active_alerts, c, Day, now)
      immediate == ImmediateActions(roi, summary)
      risk == RiskMitigation(summary)
      strategic == StrategicImprovements(summary)
      growth == GrowthOpportunities(roi)
  IN /\ roiRet' =
          [op |-> "analyze_optimization_opportunities", campaign_id |-> c,
           current_performance |->
             [roi_percentage |-> roi.roi_percentage,
              total_revenue |-> roi.total_revenue,
              net_profit |-> roi.net_profit],
           opportunities |->
             [immediate_actions |-> immediate, risk_mitigation |-> risk,
              strategic_improvements |-> strategic,
              growth_opportunities |-> growth],
           priority_score |->
             _calculate_priority_score(immediate, risk, strategic, growth),
           recommended_next_steps |->
             _generate_recommendations(immediate, risk, strategic, growth)]
     /\ UNCHANGED << investment_tracking, revenue_tracking, conversion_tracking >>
     /\ UNCHANGED << optVars, engineVars, errVars, fnVars, monVars, wfVars >>

\* the campaign of the scenario: one investment of 5000 and 12 conversions
\* of 1250 each, 15000 in all
Scenario ==
  [campaign_id |-> "campaign-1", investment |-> 5000, conversions |-> 12,
   revenue |-> 1250]

ScenarioNext ==
  \/ Tick(Day)
  \/ /\ LedgerOf(investment_tracking, Scenario.campaign_id) = << >>
     /\ track_investment(Scenario.campaign_id, Scenario.investment)
  \/ /\ Len(LedgerOf(revenue_tracking, Scenario.campaign_id))
          < Scenario.conversions
     /\ track_conversion(Scenario.campaign_id, "student-1", Scenario.revenue)
  \/ calculate_real_time_roi(Scenario.campaign_id)
  \/ analyze_optimization_opportunities(Scenario.campaign_id)

ScenarioSpec == IdleInit /\ [][ScenarioNext]_vars

\* the ledger of the scenario is complete
ScenarioRecorded ==
  /\ LedgerOf(investment_tracking, Scenario.campaign_id)
       = << Scenario.investment >>
  /\ Len(LedgerOf(revenue_tracking, Scenario.campaign_id))
       = Scenario.conversions
  /\ Sum(LedgerOf(revenue_tracking, Scenario.campaign_id)) = 15000

\* the actions of a list contain the conversion-rate opportunity
HasConversionRateAction(actions) ==
  \E i \in 1..Len(actions) : actions[i] = "improve_conversion_rate"

\* C18 as stated: with investment 5000 and 12 conversions totalling 15000,
\* calculate_real_time_roi yields ROI% = 200 and the immediate actions of
\* the analysis do not include the conversion-rate opportunity.
C18_ScenarioNoConversionRateAction ==
  ScenarioRecorded =>
    /\ roiRet.op = "calculate_real_time_roi"
         => roiRet.roi_percentage = << 200, 1 >>
    /\ roiRet.op = "analyze_optimization_opportunities"
         => ~ HasConversionRateAction(roiRet.opportunities.immediate_actions)

\* C18 as amended: with investment 5000 and 12 conversions totalling 15000,
\* calculate_real_time_roi yields ROI% = 200 and, 200 being below 1500, the
\* immediate actions of the analysis include the conversion-rate
\* opportunity.
C18_ScenarioConversionRateAction ==
  ScenarioRecorded =>
    /\ roiRet.op = "calculate_real_time_roi"
         => roiRet.roi_percentage = << 200, 1 >>
    /\ roiRet.op = "analyze_optimization_opportunities"
         => /\ roiRet.current_performance.roi_percentage = << 200, 1 >>
            /\ HasConversionRateAction(roiRet.opportunities.immediate_actions)

\* the analysis of the completed scenario has returned
C18_Witness ==
  /\ ScenarioRecorded
  /\ roiRet.op = "analyze_optimization_opportunities"
  /\ roiRet.current_performance.roi_percentage = << 200, 1 >>


(***************************************************************************)
(* workflows.py : WorkflowOrchestrator                                     *)
(***************************************************************************)
\* the states of an asyncio task
RUNNING == "running"
CANCELLED == "cancelled"

\* constraints without a "monitoring_task" key
NoTask == 0

\* workflow_id = f"campaign_{pattern_id}"
WorkflowId(pattern_id) == << "campaign", pattern_id >>

\* the ids the callers of the orchestrator pass: the id of the started
\* workflow and an id no workflow has
WorkflowIds == { WorkflowId(PatternId), WorkflowId("unknown") }

\* campaign_config: the campaign, and data_sources as the caller's JSON
\* gives it, a dict or a value without a length
CampaignConfigs ==
  [campaign_id : Campaigns, data_sources : {"dict", "number"}]

\* dict[key] = value
DictPut(dict, key, value) ==
  [k \in DOMAIN dict \cup {key} |-> IF k = key THEN value ELSE dict[k]]

\* del dict[key]
DictDel(dict, key) ==
  IF DOMAIN dict \ {key} = {} THEN << >>
  ELSE [k \in DOMAIN dict \ {key} |-> dict[k]]

\* WorkflowOrchestrator.start_campaign_workflow(campaign_config), up to the
\* first await of _execute_complete_workflow: the pattern is started and the
\* context registered
StartCampaignWorkflowSteps(cfg, pattern_id) ==
  LET context == [workflow_id |-> WorkflowId(pattern_id),
                  campaign_id |-> cfg.campaign_id,
                  data_sources |-> cfg.data_sources,
                  constraints |-> [monitoring_task |-> NoTask],
                  created_at |-> now]
  IN /\ pattern_id \notin active_patterns
     /\ active_patterns' = active_patterns \cup {pattern_id}
     /\ thinking_queue' =
          Append(thinking_queue,
                 [action |-> "start_pattern", pattern_id |-> pattern_id])
     /\ thinkRet' = [op |-> "start_thinking", pattern_id |-> pattern_id]
     /\ active_workflows' =
          DictPut(active_workflows, context.workflow_id, context)
     /\ executing' = DictPut(executing, context.workflow_id, context)
     /\ UNCHANGED << status, result, errors, inflight, badStage, calls >>

\* start_campaign_workflow called on the orchestrator directly
start_campaign_workflow(cfg) ==
  /\ StartCampaignWorkflowSteps(cfg, PatternId)
  /\ UNCHANGED << tasks, wfRet, srvVars >>
  /\ UNCHANGED << errVars, fnVars, monVars, roiVars >>

\* _validate_data_sources takes len(context.data_sources): the processing
\* raises exactly when data_sources has no length
ProcessingRaises(context) == context.data_sources # "dict"

\* start_campaign_workflow resumes after the three processing stages
\* returned: _start_monitoring_loop creates the monitoring task and stores it
\* in the constraints of the context, registered or not
ExecuteCompleteSteps(id) ==
  /\ id \in DOMAIN executing
  /\ ~ ProcessingRaises(executing[id])
  /\ tasks' = Append(tasks, RUNNING)
  /\ active_workflows' =
       IF id \in DOMAIN active_workflows
       THEN [active_workflows EXCEPT
               ![id].constraints.monitoring_task = Len(tasks) + 1]
       ELSE active_workflows
  /\ executing' = DictDel(executing, id)
  /\ wfRet' = [op |-> "start_campaign_workflow", workflow_id |-> id]

\* the return of start_campaign_workflow to a caller of the orchestrator
ExecuteComplete(id) ==
  /\ ExecuteCompleteSteps(id)
  /\ UNCHANGED << srvVars, engineVars, errVars, fnVars, monVars, roiVars >>

\* start_campaign_workflow resumes in the except branch of
\* _execute_complete_workflow: _handle_workflow_error logs and the id is
\* returned all the same
ExecuteFailSteps(id) ==
  /\ id \in DOMAIN executing
  /\ ProcessingRaises(executing[id])
  /\ executing' = DictDel(executing, id)
  /\ wfRet' = [op |-> "start_campaign_workflow", workflow_id |-> id]
  /\ UNCHANGED << active_workflows, tasks >>

\* the same return to a caller of the orchestrator
ExecuteFail(id) ==
  /\ ExecuteFailSteps(id)
  /\ UNCHANGED << srvVars, engineVars, errVars, fnVars, monVars, roiVars >>

\* the monitoring task in the constraints of a registered workflow
MonitoringTaskOf(workflows, id) == workflows[id].constraints.monitoring_task

\* WorkflowOrchestrator.stop_workflow(workflow_id)
stop_workflow(id) ==
  /\ IF id \notin DOMAIN active_workflows
     THEN /\ wfRet' = [op |-> "stop_workflow", workflow_id |-> id,
                       value |-> FALSE]
          /\ UNCHANGED << active_workflows, tasks >>
     ELSE /\ tasks' =
               IF MonitoringTaskOf(active_workflows, id) # NoTask
               THEN [tasks EXCEPT
                       ![MonitoringTaskOf(active_workflows, id)] = CANCELLED]
               ELSE tasks
          /\ active_workflows' = DictDel(active_workflows, id)
          /\ wfRet' = [op |-> "stop_workflow", workflow_id |-> id,
                       value |-> TRUE]
  /\ UNCHANGED executing
  /\ UNCHANGED << srvVars, engineVars, errVars, fnVars, monVars, roiVars >>

\* WorkflowOrchestrator.get_workflow_status(workflow_id); the workflow is
\* looked up before the await of the current metrics
get_workflow_status(id) ==
  /\ wfRet' =
       IF id \notin DOMAIN active_workflows
       THEN [op |-> "get_workflow_status", workflow_id |-> id,
             error |-> "Workflow not found", status |-> None]
       ELSE [op |-> "get_workflow_status", workflow_id |-> id,
             error |-> None, status |-> "active"]
  /\ UNCHANGED << active_workflows, executing, tasks >>
  /\ UNCHANGED << srvVars, engineVars, errVars, fnVars, monVars, roiVars >>

\* one campaign workflow, started, stopped and queried, while the steps of
\* its pattern are processed
WorkflowNext ==
  \/ \E cfg \in CampaignConfigs : start_campaign_workflow(cfg)
  \/ \E id \in DOMAIN executing : ExecuteComplete(id)
  \/ \E id \in DOMAIN executing : ExecuteFail(id)
  \/ \E s \in Steps : PatternId \in active_patterns /\ ProcessBegin(s)
  \/ \E s \in Steps : ProcessComplete(s)
  \/ \E id \in WorkflowIds : stop_workflow(id)
  \/ \E id \in WorkflowIds : get_workflow_status(id)

WorkflowSpec == IdleInit /\ [][WorkflowNext]_vars

\* C20: a call of stop_workflow on a registered workflow cancels the
\* monitoring task of the workflow, leaves no step of its pattern Pending and
\* removes the workflow, and a workflow that is not registered is not
\* reported active
C20_StopCancelsAndSkips ==
  [][\A id \in WorkflowIds :
       /\ (stop_workflow(id) /\ id \in DOMAIN active_workflows) =>
            /\ MonitoringTaskOf(active_workflows, id) # NoTask =>
                 tasks'[MonitoringTaskOf(active_workflows, id)] = CANCELLED
            /\ \A s \in Steps : status'[s] # PENDING
            /\ id \notin DOMAIN active_workflows'
       /\ (get_workflow_status(id) /\ id \notin DOMAIN active_workflows) =>
            wfRet'.status # "active"]_vars

(***************************************************************************)
(* monitoring.py : start_monitoring, _monitoring_loop, stop_monitoring     *)
(***************************************************************************)
\* the number of monitoring loops started
MaxLoops == 3

\* the samples _collect_metrics gives a loop: on target, and a response rate
\* below the critical threshold
LoopSamples == { Nominal, [Nominal EXCEPT !.response_rate = 30] }

\* PerformanceMonitor.start_monitoring(campaign_id): the flag is set and a
\* task is created for _monitoring_loop(campaign_id), which runs at once
StartMonitoringSteps(c) ==
  /\ monitoring_active' = TRUE
  /\ loops' = Append(loops, [campaign_id |-> c, state |-> RUNNING,
                             wake |-> now])
  /\ monRet' = [op |-> "start_monitoring", campaign_id |-> c,
                task |-> Len(loops) + 1]
  /\ UNCHANGED << metric_history, active_alerts >>

\* start_monitoring called on the monitor directly
start_monitoring(c) ==
  /\ StartMonitoringSteps(c)
  /\ UNCHANGED << engineVars, errVars, fnVars, roiVars, wfVars >>

\* PerformanceMonitor.stop_monitoring()
stop_monitoring ==
  /\ monitoring_active' = FALSE
  /\ monRet' = [op |-> "stop_monitoring"]
  /\ UNCHANGED << metric_history, active_alerts, loops >>
  /\ UNCHANGED << engineVars, errVars, fnVars, roiVars, wfVars >>

\* the loop of task i is at the top of its while: it returns when the flag
\* is down, and otherwise stores and checks one sample and sleeps
LoopIteration(i, metrics) ==
  LET c == loops[i].campaign_id
  IN /\ loops[i].state = RUNNING
     /\ loops[i].wake <= now
     /\ IF monitoring_active
        THEN /\ metric_history' =
                  HistoryAfterSample(metric_history, c, metrics, now)
             /\ active_alerts' =
                  AlertsAfterCheck(active_alerts, c, metrics,
                                   alert_thresholds, now, 1)
             /\ loops' = [loops EXCEPT ![i].wake = now + LoopPeriod]
        ELSE /\ loops' = [loops EXCEPT ![i].state = "finished"]
             /\ UNCHANGED << metric_history, active_alerts >>
     /\ UNCHANGED << monitoring_active, monRet >>
     /\ UNCHANGED << engineVars, errVars, fnVars, roiVars, wfVars >>

LoopNext ==
  \/ Tick(LoopPeriod)
  \/ \E c \in Campaigns : Len(loops) < MaxLoops /\ start_monitoring(c)
  \/ stop_monitoring
  \/ \E i \in DOMAIN loops : \E metrics \in LoopSamples :
       LoopIteration(i, metrics)

LoopSpec == IdleInit /\ [][LoopNext]_vars

\* the loops that go on sampling: running, and the condition of their while
\* holds
Sampling(flag, tasks_, i) == tasks_[i].state = RUNNING /\ flag

\* C21: no two loops sample the same campaign, and a stop of the monitoring
\* ends the loops of one campaign only: the loops of every other campaign go
\* on sampling
C21_OneLoopPerCampaign ==
  /\ [](\A i, j \in DOMAIN loops :
          (/\ i # j
           /\ Sampling(monitoring_active, loops, i)
           /\ Sampling(monitoring_active, loops, j))
          => loops[i].campaign_id # loops[j].campaign_id)
  /\ [][stop_monitoring =>
          \E c \in Campaigns :
            \A i \in DOMAIN loops :
              (Sampling(monitoring_active, loops, i)
                 /\ loops[i].campaign_id # c)
              => Sampling(monitoring_active', loops', i)]_vars

(***************************************************************************)
(* error_handling.py : concurrent handle_error calls                       *)
(***************************************************************************)
\* the component whose breaker the concurrent calls share
SharedComponent == "waha-send"

\* asyncio.gather of n handle_error calls for rate-limit errors of the
\* shared component; callbacks tells whether error_callbacks is non-empty.
\* pending calls have not run yet, notifying calls are suspended in
\* _notify_error_callbacks, the only await of handle_error that can yield
GatherInit ==
  \E n \in 1..MaxErrors : \E c \in Campaigns : \E callbacks \in BOOLEAN :
    /\ EngineInit({}) /\ ErrInit /\ MonInit /\ RoiInit /\ WfInit
    /\ args = [op |-> "gather", n |-> n, error |-> RateLimited,
               context |-> [component |-> SharedComponent, campaign_id |-> c],
               callbacks |-> callbacks]
    /\ ret = [op |-> "gather", pending |-> n, notifying |-> 0, returned |-> 0]

\* one of the gathered calls runs: handle_error up to its return or, with
\* callbacks registered, up to the await of the first callback
GatheredHandleError ==
  /\ args.op = "gather"
  /\ ret.pending > 0
  /\ HandleErrorSteps(args.error, args.context)
  /\ ret' = IF args.callbacks
            THEN [ret EXCEPT !.pending = @ - 1, !.notifying = @ + 1]
            ELSE [ret EXCEPT !.pending = @ - 1, !.returned = @ + 1]
  /\ UNCHANGED << args, engineVars, monVars, roiVars, wfVars >>

\* the callbacks of a suspended call return and handle_error returns the
\* disposition it computed before them
CallbacksReturn ==
  /\ args.op = "gather"
  /\ ret.notifying > 0
  /\ ret' = [ret EXCEPT !.notifying = @ - 1, !.returned = @ + 1]
  /\ UNCHANGED << args, engineVars, errVars, monVars, roiVars, wfVars >>

GatherNext ==
  \/ Tick(1)
  \/ GatheredHandleError
  \/ CallbacksReturn

GatherSpec == GatherInit /\ [][GatherNext]_vars

\* every gathered call has returned
GatherDone == args.op = "gather" /\ ret.returned = args.n

\* C22: once n concurrent handle_error calls that take the CIRCUIT_BREAKER
\* strategy for one component have all returned, the failure count of the
\* component's breaker is n and the breaker is open exactly if n is at
\* least the threshold
C22_NoLostIncrement ==
  GatherDone =>
    /\ SharedComponent \in DOMAIN circuit_breakers
    /\ circuit_breakers[SharedComponent].failure_count = args.n
    /\ (circuit_breakers[SharedComponent].state = "open")
         <=> (args.n >= failure_threshold)

\* calls with callbacks registered, enough of them to open the breaker, have
\* all returned
C22_Witness ==
  /\ GatherDone
  /\ args.callbacks
  /\ args.n >= failure_threshold
  /\ circuit_breakers[SharedComponent].state = "open"

(***************************************************************************)
(* thinking.py : concurrent invocations of process_thinking_step           *)
(***************************************************************************)
\* C23: a step is never executed by two invocations of
\* process_thinking_step at once, so its result is written while no other
\* invocation for it is in flight, and a Completed step is never set back to
\* InProgress
C23_StepWritesSerialized ==
  /\ [](\A s \in Steps : inflight[s] <= 1)
  /\ [][\A s \in Steps :
          /\ ProcessComplete(s) => inflight[s] = 1
          /\ status[s] = COMPLETED => status'[s] # IN_PROGRESS]_vars

(***************************************************************************)
(* monitoring.py : _generate_recommendations and _calculate_priority_score *)
(* on their own                                                            *)
(***************************************************************************)
\* the longest list of opportunities of one class
MaxItems == 4

\* the first n items of a list of distinct actions of a class
Items(class, n) == [i \in 1..n |-> << class, i >>]

\* opportunities dicts: the analysis has at most two immediate actions and
\* one risk item, and up to MaxItems entries in the other two classes
OpportunityDicts ==
  [immediate_actions : { Items("immediate_actions", n) : n \in 0..2 },
   risk_mitigation : { Items("risk_mitigation", n) : n \in 0..1 },
   strategic_improvements :
     { Items("strategic_improvements", n) : n \in 0..MaxItems },
   growth_opportunities :
     { Items("growth_opportunities", n) : n \in 0..MaxItems }]

RecommendInit ==
  \E o \in OpportunityDicts :
    \E f \in {"_generate_recommendations", "_calculate_priority_score"} :
      /\ EngineInit({}) /\ ErrInit /\ MonInit /\ RoiInit /\ WfInit
      /\ args = [op |-> f, opportunities |-> o]
      /\ ret = [op |-> "none"]

\* the call of _generate_recommendations returns
CallGenerateRecommendations ==
  /\ args.op = "_generate_recommendations"
  /\ ret.op = "none"
  /\ ret' = [op |-> args.op,
             value |-> _generate_recommendations(
                         args.opportunities.immediate_actions,
                         args.opportunities.risk_mitigation,
                         args.opportunities.strategic_improvements,
                         args.opportunities.growth_opportunities)]
  /\ UNCHANGED << args, engineVars, errVars, monVars, roiVars, wfVars >>

\* the call of _calculate_priority_score returns
CallCalculatePriorityScore ==
  /\ args.op = "_calculate_priority_score"
  /\ ret.op = "none"
  /\ ret' = [op |-> args.op,
             value |-> _calculate_priority_score(
                         args.opportunities.immediate_actions,
                         args.opportunities.risk_mitigation,
                         args.opportunities.strategic_improvements,
                         args.opportunities.growth_opportunities)]
  /\ UNCHANGED << args, engineVars, errVars, monVars, roiVars, wfVars >>

RecommendNext == CallGenerateRecommendations \/ CallCalculatePriorityScore

RecommendSpec == RecommendInit /\ [][RecommendNext]_vars

MaxImplementations == 2

\* the actions implement_optimization has a handler for
KnownActions ==
  {"improve_conversion_rate", "optimize_message_timing",
   "investigate_delivery_issues", "scale_successful_segments"}

\* action names the callers pass: the known ones, the strategic action the
\* analysis proposes for a declining response rate, and a misspelt one
OptimizationActions ==
  KnownActions \cup {"reverse_response_rate_decline", "improve_conversion"}

\* implementation_result as implement_optimization initialises it
InitialResult(c, action, t) ==
  [op |-> "implement_optimization", action |-> action, campaign_id |-> c,
   timestamp |-> t, success |-> FALSE, error |-> None, raised |-> FALSE]

\* variant of HistoryAfterImplement: the result is recorded whatever the
\* action
HistoryAfterImplement_AlwaysRecorded(history, res) == Append(history, res)

\* optimization_history once implement_optimization leaves its try block
\* with the result res
HistoryAfterImplement(history, res) ==
  IF res.action \in KnownActions THEN Append(history, res) ELSE history

\* implement_optimization(campaign_id, action) for an action with a handler,
\* up to the await in the handler
ImplementBegin(c, action) ==
  /\ action \in KnownActions
  /\ InitialResult(c, action, now) \notin implementing
  /\ implementing' = implementing \cup {InitialResult(c, action, now)}
  /\ UNCHANGED << investment_tracking, revenue_tracking, conversion_tracking,
                  roiRet, optimization_history >>
  /\ UNCHANGED << engineVars, errVars, fnVars, monVars, wfVars >>

\* the handler returns its dict, with "success": True; the result is
\* updated with it, recorded and returned
ImplementComplete(call) ==
  LET res == [call EXCEPT !.success = TRUE]
  IN /\ call \in implementing
     /\ implementing' = implementing \ {call}
     /\ optimization_history' = HistoryAfterImplement(optimization_history, res)
     /\ roiRet' = res
     /\ UNCHANGED << investment_tracking, revenue_tracking,
                     conversion_tracking >>
     /\ UNCHANGED << engineVars, errVars, fnVars, monVars, wfVars >>

\* implement_optimization(campaign_id, action) for an action without a
\* handler: the else branch sets the error and returns
ImplementUnknown(c, action) ==
  LET res == [InitialResult(c, action, now) EXCEPT
                !.error = << "Unknown optimization action", action >>]
  IN /\ action \notin KnownActions
     /\ optimization_history' = HistoryAfterImplement(optimization_history, res)
     /\ roiRet' = res
     /\ UNCHANGED << investment_tracking, revenue_tracking,
                     conversion_tracking, implementing >>
     /\ UNCHANGED << engineVars, errVars, fnVars, monVars, wfVars >>

\* the calls made so far
Implementations == Len(optimization_history) + Cardinality(implementing)

OptimizeNext ==
  \/ Tick(1)
  \/ \E c \in Campaigns : \E a \in OptimizationActions :
       Implementations < MaxImplementations /\ ImplementBegin(c, a)
  \/ \E call \in implementing : ImplementComplete(call)
  \/ \E c \in Campaigns : \E a \in OptimizationActions : ImplementUnknown(c, a)

OptimizeSpec == IdleInit /\ [][OptimizeNext]_vars

\* C25: a call of implement_optimization that returns for an action outside
\* the four known ones returns success = false with an error, raises
\* nothing and leaves the history as it was; for a known action it returns
\* success = true and the history grows by exactly the one entry
C25_UnknownActionReported ==
  [][(/\ roiRet'.op = "implement_optimization"
      /\ (roiRet' # roiRet \/ optimization_history' # optimization_history))
     => /\ ~ roiRet'.raised
        /\ IF roiRet'.action \in KnownActions
           THEN /\ roiRet'.success
                /\ roiRet'.error = None
                /\ optimization_history' = Append(optimization_history, roiRet')
           ELSE /\ ~ roiRet'.success
                /\ roiRet'.error # None
                /\ optimization_history' = optimization_history]_vars

\* an unknown action was reported after a known one was recorded
C25_Witness ==
  /\ roiRet.op = "implement_optimization"
  /\ roiRet.action \notin KnownActions
  /\ ~ roiRet.success
  /\ Len(optimization_history) > 0

(***************************************************************************)
(* error_handling.py : get_error_statistics over windows that have passed  *)
(***************************************************************************)
\* errors of three categories, one of them counted by a circuit breaker
StatisticsErrors == { RateLimited, ConnectionRefused, SendFailed }

\* the error engine under errors that are handled and then age by a day
\* before the statistics of the last hour and of the last day are asked for
StatisticsNext ==
  \/ Tick(Day)
  \/ \E e \in StatisticsErrors : \E x \in Contexts :
       nErrors < MaxDispositions /\ handle_error(e, x)
  \/ \E r \in TimeRanges : get_error_statistics(r)

StatisticsSpec == IdleInit /\ [][StatisticsNext]_vars

RECURSIVE CountSum(_, _)
\* the sum of the counts of a by-category or by-severity dict over the keys S
CountSum(counts, S) ==
  IF S = {} THEN 0
  ELSE LET k == CHOOSE k \in S : TRUE
       IN counts[k] + CountSum(counts, S \ {k})

\* the counts of a result under key, none when the result has no such dict
CountsOf(res, key) == IF key \in DOMAIN res THEN res[key] ELSE << >>

\* C26: whatever the window, the result of get_error_statistics holds the
\* state of every registered circuit breaker, and its total is the sum of
\* its counts by category and the sum of its counts by severity
C26_StatisticsShowBreakers ==
  [][\A r \in TimeRanges :
       get_error_statistics(r) =>
         /\ \A c \in DOMAIN circuit_breakers :
              /\ "circuit_breaker_status" \in DOMAIN errRet'
              /\ c \in DOMAIN errRet'.circuit_breaker_status
              /\ errRet'.circuit_breaker_status[c].state
                   = circuit_breakers[c].state
         /\ errRet'.total_errors =
              CountSum(CountsOf(errRet', "errors_by_category"),
                       DOMAIN CountsOf(errRet', "errors_by_category"))
         /\ errRet'.total_errors =
              CountSum(CountsOf(errRet', "errors_by_severity"),
                       DOMAIN CountsOf(errRet', "errors_by_severity"))]_vars

(***************************************************************************)
(* monitoring.py : _process_metric on rings that are nearly full           *)
(***************************************************************************)
\* number of _process_metric calls
MaxRecords == 2

\* the metric types and values of the recorded measurements
RecordedMetrics == {RESPONSE_RATE, ROI}
RecordedValues == {0, 1}

\* the ring a monitoring loop has filled with n points for one key, a loop
\* period apart, the last one a period ago; the values alternate
FilledRing(n) ==
  [i \in 1..n |-> [timestamp |-> (i - n - 1) * LoopPeriod, value |-> i % 2]]

\* a monitor whose ring for the response rate of campaign-1 is empty, one
\* short of its capacity, or full
RingInit ==
  \E n \in {0, maxlen - 1, maxlen} :
    /\ EngineInit({}) /\ ErrInit /\ FnIdle /\ RoiInit /\ WfInit
    /\ metric_history =
         IF n = 0 THEN << >>
         ELSE [k \in { << "campaign-1", RESPONSE_RATE >> } |-> FilledRing(n)]
    /\ active_alerts = << >>
    /\ monRet = [op |-> "none"]
    /\ monitoring_active = FALSE
    /\ loops = << >>

\* the number of points recorded since the start
Recorded ==
  CountSum([k \in DOMAIN metric_history |->
              Cardinality({ i \in 1..Len(metric_history[k]) :
                              metric_history[k][i].timestamp >= 0 })],
           DOMAIN metric_history)

\* PerformanceMonitor._process_metric(campaign_id, metric_type, value)
_process_metric(c, m, value) ==
  /\ metric_history' =
       HistoryAfterSample(metric_history, c, [x \in {m} |-> value], now)
  /\ monRet' = [op |-> "_process_metric", campaign_id |-> c,
                metric_type |-> m, value |-> value]
  /\ UNCHANGED << active_alerts, loopVars >>
  /\ UNCHANGED << engineVars, errVars, fnVars, roiVars, wfVars >>

RingNext ==
  \/ Tick(LoopPeriod)
  \/ \E c \in Campaigns : \E m \in RecordedMetrics : \E v \in RecordedValues :
       Recorded < MaxRecords /\ _process_metric(c, m, v)

RingSpec == RingInit /\ [][RingNext]_vars

\* C27: the ring of every key holds at most maxlen points; a recording for
\* a key leaves in the ring of the key the last maxlen of the old points
\* followed by the new one, in arrival order, and leaves the ring of every
\* other key as it was
C27_BoundedRing ==
  /\ [](\A k \in DOMAIN metric_history : Len(metric_history[k]) <= maxlen)
  /\ [][\A c \in Campaigns : \A m \in RecordedMetrics :
          \A v \in RecordedValues :
            _process_metric(c, m, v) =>
              LET old == HistoryOf(metric_history, << c, m >>)
                  all == Append(old, [timestamp |-> now, value |-> v])
              IN /\ metric_history'[<< c, m >>] = LastN(all, maxlen)
                 /\ \A k \in DOMAIN metric_history \ {<< c, m >>} :
                      metric_history'[k] = metric_history[k]
                 /\ DOMAIN metric_history' =
                      DOMAIN metric_history \cup {<< c, m >>}]_vars

\* a full ring has taken one more point: its oldest point is gone and the
\* ring of another key holds a point as well
C27_Witness ==
  LET k == << "campaign-1", RESPONSE_RATE >>
  IN /\ k \in DOMAIN metric_history
     /\ Len(metric_history[k]) = maxlen
     /\ metric_history[k][maxlen].timestamp >= 0
     /\ metric_history[k][1].timestamp > - maxlen * LoopPeriod
     /\ \E o \in DOMAIN metric_history : o # k

\* ---------------------------------------------------------------------------
\* SequentialThinkingServer._start_campaign_thinking (server.py): the server
\* starts a pattern in its own ThinkingEngine and then awaits the
\* orchestrator's start_campaign_workflow, which starts a pattern in the
\* ThinkingEngine of the orchestrator
\* ---------------------------------------------------------------------------

\* campaign starts the server accepts in one run
MaxStarts == 2

\* the microsecond field of two readings of datetime.now() taken in the same
\* second: equal, or the later one larger
Micros == { 0, 1 }

\* f"{pattern.name}_{datetime.now().isoformat()}" of start_thinking, for a
\* clock reading of t seconds and u microseconds
PatternIdAt(t, u) == << PatternId, t, u >>

\* _start_campaign_thinking(campaign_config) up to the first suspension,
\* inside _execute_complete_workflow: both patterns are started and the
\* workflow context is registered; the orchestrator reads the clock u
\* microseconds after the server
StartCampaignBegin(cfg, u) ==
  LET pattern_id == PatternIdAt(now, 0)
      workflow_pattern_id == PatternIdAt(now, u)
  IN /\ server_patterns' = server_patterns \cup {pattern_id}
     /\ server_queue' =
          Append(server_queue,
                 [action |-> "start_pattern", pattern_id |-> pattern_id])
     /\ StartCampaignWorkflowSteps(cfg, workflow_pattern_id)
     /\ starting' = DictPut(starting, WorkflowId(workflow_pattern_id),
                            [campaign_config |-> cfg,
                             pattern_id |-> pattern_id])
     /\ UNCHANGED << active_campaigns, srvRet, tasks, wfRet >>
     /\ UNCHANGED << errVars, fnVars, monVars, roiVars >>

\* the rest of _start_campaign_thinking once start_campaign_workflow has
\* returned workflow_id: the campaign is stored and the ids are reported
StartCampaignStore(workflow_id) ==
  LET call == starting[workflow_id]
      campaign_id == call.campaign_config.campaign_id
  IN /\ active_campaigns' =
          DictPut(active_campaigns, campaign_id,
                  [pattern_id |-> call.pattern_id,
                   workflow_id |-> workflow_id,
                   config |-> call.campaign_config,
                   start_time |-> now,
                   status |-> "active"])
     /\ starting' = DictDel(starting, workflow_id)
     /\ srvRet' = [op |-> "_start_campaign_thinking", success |-> TRUE,
                   campaign_id |-> campaign_id,
                   pattern_id |-> call.pattern_id,
                   workflow_id |-> workflow_id]
     /\ UNCHANGED << server_patterns, server_queue >>
     /\ UNCHANGED << engineVars, errVars, fnVars, monVars, roiVars >>

\* _start_campaign_thinking resumes when the workflow has run to its end
StartCampaignComplete(workflow_id) ==
  /\ workflow_id \in DOMAIN starting
  /\ ExecuteCompleteSteps(workflow_id)
  /\ StartCampaignStore(workflow_id)

\* _start_campaign_thinking resumes when the workflow has failed and the
\* orchestrator has logged the failure
StartCampaignFail(workflow_id) ==
  /\ workflow_id \in DOMAIN starting
  /\ ExecuteFailSteps(workflow_id)
  /\ StartCampaignStore(workflow_id)

ServerNext ==
  \/ Tick(1)
  \/ \E cfg \in CampaignConfigs, u \in Micros :
       Len(server_queue) < MaxStarts /\ StartCampaignBegin(cfg, u)
  \/ \E id \in DOMAIN starting : StartCampaignComplete(id)
  \/ \E id \in DOMAIN starting : StartCampaignFail(id)

ServerSpec == IdleInit /\ [][ServerNext]_vars

\* C28: a campaign start registers exactly one ThinkingPattern and one
\* WorkflowContext, and the pattern id the server reports for the campaign
\* is the id of the pattern in the orchestrator's engine, the one the
\* reported workflow is named after
C28_OnePatternPerCampaignStart ==
  /\ [][\A cfg \in CampaignConfigs, u \in Micros :
          StartCampaignBegin(cfg, u) =>
            /\ Cardinality(server_patterns' \ server_patterns)
                 + Cardinality(active_patterns' \ active_patterns) = 1
            /\ Cardinality(DOMAIN active_workflows'
                             \ DOMAIN active_workflows) = 1]_vars
  /\ [](srvRet.op = "_start_campaign_thinking" =>
          /\ srvRet.pattern_id \in active_patterns
          /\ srvRet.workflow_id = WorkflowId(srvRet.pattern_id))

\* ---------------------------------------------------------------------------
\* ResilientOperationWrapper.resilient (error_handling.py): the wrapper of
\* the decorated operation
\* ---------------------------------------------------------------------------

\* largest max_retries given to the decorator
MaxRetries == 3

\* exceptions the decorated operation raises
OperationErrors == { ConnectionRefused, SendFailed }

\* the variables of the error engine but the clock
errVarsButNow ==
  << ticks, error_registry, error_patterns, circuit_breakers,
     recovery_history, nErrors, cooledSeen, failing_handlers, errRet >>

\* the outcome of an invocation that returned
Returned == [type |-> "none", msg |-> "returned", words |-> {}]

\* range(max_retries + 1)
Attempts(max_retries) == 0 .. max_retries

\* variant of FinalAttempt: the first attempt is taken for the final one
FinalAttempt_First(attempt, max_retries) == attempt = 0

\* attempt == max_retries
FinalAttempt(attempt, max_retries) == attempt = max_retries

\* min(2 ** attempt, 30), the wait of the wrapper before the next attempt
WaitTime(attempt) == Min(<< 2 ^ attempt, 30 >>)

\* a call of the wrapper of an operation decorated with max_retries, the
\* decorator's component and the campaign_id of the call's kwargs; ret is
\* the position of the call: the attempt of the for loop, the outcome of
\* every invocation of the operation so far, and what the call returned or
\* raised
ResilientInit ==
  \E n \in -1 .. MaxRetries : \E c \in { None, "campaign-1" } :
    /\ EngineInit({}) /\ ErrInit /\ MonInit /\ RoiInit /\ WfInit
    /\ args = [op |-> "resilient", max_retries |-> n,
               context |-> [component |-> "whatsapp", campaign_id |-> c]]
    /\ ret = [op |-> "resilient", state |-> "calling", attempt |-> 0,
              outcomes |-> << >>, result |-> None, exception |-> None,
              wake |-> 0]

\* the operation is invoked and returns: the wrapper returns its result
WrapperCallReturns ==
  /\ ret.state = "calling"
  /\ ret.attempt \in Attempts(args.max_retries)
  /\ ret' = [ret EXCEPT !.state = "returned",
                        !.outcomes = Append(@, Returned),
                        !.result = [value |-> "result",
                                    attempt |-> ret.attempt]]
  /\ UNCHANGED << args, engineVars, errVars, monVars, roiVars, wfVars >>

\* the operation is invoked and raises e before the final attempt: the
\* wrapper logs and sleeps
WrapperCallRaises(e) ==
  /\ ret.state = "calling"
  /\ ret.attempt \in Attempts(args.max_retries)
  /\ ~ FinalAttempt(ret.attempt, args.max_retries)
  /\ ret' = [ret EXCEPT !.state = "sleeping",
                        !.outcomes = Append(@, e),
                        !.wake = now + WaitTime(ret.attempt)]
  /\ UNCHANGED << args, engineVars, errVars, monVars, roiVars, wfVars >>

\* asyncio.sleep(wait_time) returns and the loop goes to the next attempt
WrapperSleepReturns ==
  /\ ret.state = "sleeping"
  /\ now' = ret.wake
  /\ ret' = [ret EXCEPT !.state = "calling", !.attempt = @ + 1]
  /\ UNCHANGED errVarsButNow
  /\ UNCHANGED << args, engineVars, monVars, roiVars, wfVars >>

\* the operation is invoked and raises e on the final attempt: the wrapper
\* hands e to handle_error and raises it again
WrapperCallRaisesFinal(e) ==
  /\ ret.state = "calling"
  /\ ret.attempt \in Attempts(args.max_retries)
  /\ FinalAttempt(ret.attempt, args.max_retries)
  /\ HandleErrorSteps(e, args.context)
  /\ ret' = [ret EXCEPT !.state = "raised",
                        !.outcomes = Append(@, e),
                        !.exception = [error |-> e, attempt |-> ret.attempt]]
  /\ UNCHANGED << args, engineVars, monVars, roiVars, wfVars >>

\* the for loop ends without an attempt left and the wrapper returns None
WrapperLoopEnds ==
  /\ ret.state = "calling"
  /\ ret.attempt \notin Attempts(args.max_retries)
  /\ ret' = [ret EXCEPT !.state = "returned"]
  /\ UNCHANGED << args, engineVars, errVars, monVars, roiVars, wfVars >>

ResilientNext ==
  \/ WrapperCallReturns
  \/ \E e \in OperationErrors : WrapperCallRaises(e)
  \/ WrapperSleepReturns
  \/ \E e \in OperationErrors : WrapperCallRaisesFinal(e)
  \/ WrapperLoopEnds

ResilientSpec == ResilientInit /\ [][ResilientNext]_vars

\* the invocations of the operation that raised
Failures(outcomes) == { i \in 1..Len(outcomes) : outcomes[i] # Returned }

\* C29: the wrapped operation is invoked at most max_retries + 1 times; a
\* call that returns returns the result of the first invocation that
\* succeeded and hands nothing to handle_error; when max_retries + 1
\* invocations have failed, handle_error has been called once, with the
\* exception of the last invocation, and the wrapper has raised that
\* exception
C29_RetriesThenOneHandleError ==
  LET n == args.max_retries
      outcomes == ret.outcomes
      all_failed == /\ Len(outcomes) = n + 1
                    /\ Failures(outcomes) = 1..(n + 1)
                    /\ n >= 0
  IN /\ Len(outcomes) <= n + 1
     /\ (ret.state = "returned" /\ outcomes # << >>) =>
          /\ Failures(outcomes) = 1..(Len(outcomes) - 1)
          /\ ret.result = [value |-> "result", attempt |-> Len(outcomes) - 1]
     /\ ~ all_failed => nErrors = 0 /\ ret.state # "raised"
     /\ all_failed =>
          /\ ret.state = "raised"
          /\ ret.exception = [error |-> outcomes[n + 1], attempt |-> n]
          /\ nErrors = 1
          /\ \E id \in DOMAIN error_registry :
               /\ DOMAIN error_registry = {id}
               /\ error_registry[id].error_message = outcomes[n + 1].msg
               /\ error_registry[id].timestamp = now

\* every attempt of a call with retries has failed, the earlier ones with
\* another exception than the last
C29_Witness ==
  /\ ret.op = "resilient"
  /\ ret.state = "raised"
  /\ args.max_retries >= 1
  /\ ret.outcomes[1] # ret.outcomes[Len(ret.outcomes)]
  /\ nErrors = 1

\* ---------------------------------------------------------------------------
\* the sleeps of recovery (error_handling.py): _handle_simple_retry,
\* _handle_backoff_retry and the wait of the resilient wrapper
\* ---------------------------------------------------------------------------

\* largest recovery_attempts of a record and largest attempt of the wrapper
MaxAttempts == 7

\* the coroutines that sleep
SIMPLE_RETRY == "_handle_simple_retry"
BACKOFF_RETRY == "_handle_backoff_retry"
WRAPPER == "wrapper"
Sleepers == { SIMPLE_RETRY, BACKOFF_RETRY, WRAPPER }

\* variant of BackoffTime: no cap
BackoffTime_Uncapped(recovery_attempts) == 2 ^ recovery_attempts

\* backoff_time = min(2 ** error_record.recovery_attempts, 60)
BackoffTime(recovery_attempts) == Min(<< 2 ^ recovery_attempts, 60 >>)

\* a record with the given recovery_attempts handed to one of the handlers,
\* or the wrapper after the failure of the given attempt
BackoffInit ==
  \E op \in Sleepers : \E n \in 0..MaxAttempts : \E e \in StatisticsErrors :
    /\ EngineInit({}) /\ ErrInit /\ MonInit /\ RoiInit /\ WfInit
    /\ args = [op |-> op, attempts |-> n, error |-> e]
    /\ ret = [op |-> op, state |-> "called", sleep |-> 0, wake |-> 0,
              result |-> None]

\* the coroutine of args is suspended in asyncio.sleep(seconds)
SleepFor(seconds) ==
  /\ ret.state = "called"
  /\ ret' = [ret EXCEPT !.state = "sleeping", !.sleep = seconds,
                        !.wake = now + seconds]
  /\ UNCHANGED << args, engineVars, errVars, monVars, roiVars, wfVars >>

\* _handle_simple_retry(error_record) up to its sleep
SimpleRetrySleeps ==
  /\ args.op = SIMPLE_RETRY
  /\ SleepFor(1)

\* _handle_backoff_retry(error_record) up to its sleep
BackoffRetrySleeps ==
  /\ args.op = BACKOFF_RETRY
  /\ SleepFor(BackoffTime(args.attempts))

\* the wrapper after a failed attempt that is not the final one, up to its
\* sleep
WrapperSleeps ==
  /\ args.op = WRAPPER
  /\ SleepFor(WaitTime(args.attempts))

\* the sleep returns: a handler returns its dict, the wrapper goes on
SleepReturns ==
  /\ ret.state = "sleeping"
  /\ now' = ret.wake
  /\ ret' = [ret EXCEPT
               !.state = "returned",
               !.result =
                 IF args.op = SIMPLE_RETRY
                 THEN [success |-> TRUE, action |-> "retry_operation"]
                 ELSE IF args.op = BACKOFF_RETRY
                 THEN [success |-> TRUE, action |-> "retry_with_backoff",
                       backoff_time |-> ret.sleep]
                 ELSE None]
  /\ UNCHANGED errVarsButNow
  /\ UNCHANGED << args, engineVars, monVars, roiVars, wfVars >>

BackoffNext ==
  \/ SimpleRetrySleeps
  \/ BackoffRetrySleeps
  \/ WrapperSleeps
  \/ SleepReturns

BackoffSpec == BackoffInit /\ [][BackoffNext]_vars

\* s is 2^n when that is at most cap, and cap otherwise
CappedPowerOfTwo(s, n, cap) ==
  /\ s <= cap
  /\ s <= 2 ^ n
  /\ s = cap \/ s = 2 ^ n

\* C30: _handle_backoff_retry sleeps min(2^attempts, 60) seconds for a
\* record with the given recovery attempt counter, the wrapper waits
\* min(2^attempt, 30) seconds after the failed attempt, and no sleep of
\* recovery is longer than 60 seconds
C30_CappedExponentialBackoff ==
  ret.state \in { "sleeping", "returned" } =>
    /\ args.op = BACKOFF_RETRY =>
         CappedPowerOfTwo(ret.sleep, args.attempts, 60)
    /\ args.op = WRAPPER =>
         CappedPowerOfTwo(ret.sleep, args.attempts, 30)
    /\ ret.sleep <= 60
    /\ ret.wake = ret.sleep
    /\ (ret.state = "returned" /\ args.op = BACKOFF_RETRY) =>
         ret.result.backoff_time = ret.sleep

\* the handler sleeps at the cap, for a counter whose power of two is above
\* it
C30_Witness ==
  /\ args.op = BACKOFF_RETRY
  /\ 2 ^ args.attempts > 60
  /\ ret.state = "returned"
  /\ ret.sleep = 60
  /\ now = 60

\* ---------------------------------------------------------------------------
\* monitoring.py : the delivery rate in analyze_optimization_opportunities
\* ---------------------------------------------------------------------------

\* samples of one monitoring iteration: on target, and a delivery rate
\* below 0.95
DeliverySamples ==
  { Nominal, [Nominal EXCEPT !.delivery_rate = 900] }

DeliveryNext ==
  \/ Tick(LoopPeriod)
  \/ \E c \in Campaigns : \E metrics \in DeliverySamples :
       MonitoringIteration(c, metrics)
  \/ \E c \in Campaigns : analyze_optimization_opportunities(c)

DeliverySpec == IdleInit /\ [][DeliveryNext]_vars

\* the items of a list
ItemsOf(list) == { list[i] : i \in 1..Len(list) }

\* C31: when the last delivery rate recorded for a campaign within the
\* summary window of a day is below 0.95, the risk-mitigation list that
\* analyze_optimization_opportunities returns for the campaign holds
\* investigate_delivery_issues
C31_LowDeliveryIsMitigated ==
  [][\A c \in Campaigns :
       LET values == RecentValues(metric_history, c, MESSAGE_DELIVERY_RATE,
                                  Day, now)
       IN (/\ analyze_optimization_opportunities(c)
           /\ values # << >>
           /\ values[Len(values)] < 950)
            => "investigate_delivery_issues"
                 \in ItemsOf(roiRet'.opportunities.risk_mitigation)]_vars

\* ---------------------------------------------------------------------------
\* monitoring.py : an iteration of _monitoring_loop that raises
\* ---------------------------------------------------------------------------

\* asyncio.sleep(60) of the except branch of _monitoring_loop
ErrorPeriod == 60

\* variant of WakeAfterError: the loop goes on at once
WakeAfterError_AtOnce(t) == t

\* the time the loop goes on after an exception caught at time t
WakeAfterError(t) == t + ErrorPeriod

\* the numbers of metrics of a sample that _process_metric has stored when
\* the iteration raises: none when _collect_metrics raises, all of them when
\* _check_alert_conditions raises
RaisePoints == 0 .. Len(MetricOrder)

\* the first k metrics of a sample, in the order of the dict
ProcessedMetrics(metrics, k) ==
  [m \in { MetricOrder[j] : j \in 1..k } |-> metrics[m]]

\* the loop of task i is at the top of its while with the flag up, and its
\* iteration raises after k metrics were stored: the except branch logs and
\* sleeps
LoopIterationRaises(i, metrics, k) ==
  LET c == loops[i].campaign_id
  IN /\ loops[i].state = RUNNING
     /\ loops[i].wake <= now
     /\ monitoring_active
     /\ metric_history' =
          HistoryAfterSample(metric_history, c,
                             ProcessedMetrics(metrics, k), now)
     /\ loops' = [loops EXCEPT ![i].wake = WakeAfterError(now)]
     /\ UNCHANGED << active_alerts, monitoring_active, monRet >>
     /\ UNCHANGED << engineVars, errVars, fnVars, roiVars, wfVars >>

FaultyNext ==
  \/ Tick(LoopPeriod)
  \/ Tick(ErrorPeriod)
  \/ \E c \in Campaigns : loops = << >> /\ start_monitoring(c)
  \/ stop_monitoring
  \/ \E i \in DOMAIN loops : LoopIteration(i, Nominal)
  \/ \E i \in DOMAIN loops : \E k \in RaisePoints :
       LoopIterationRaises(i, Nominal, k)

FaultySpec == IdleInit /\ [][FaultyNext]_vars

Timestamps(points) == { points[j].timestamp : j \in 1..Len(points) }

C33_StepFailureRecorded ==
  [][\A s \in Steps :
       ProcessFail(s) =>
         /\ status'[s] = FAILED
         /\ errors'[s] = errors[s] + 1
         /\ thinkRet' = [op |-> "process_thinking_step", success |-> FALSE,
                         step_id |-> s]
         /\ nErrors' = nErrors + 1
         /\ Cardinality(DOMAIN error_registry')
              = Cardinality(DOMAIN error_registry) + 1]_vars

\* ---------------------------------------------------------------------------
\* thinking.py : ThinkingEngine.get_pattern_status
\* ---------------------------------------------------------------------------

\* ThinkingStep.estimated_duration of every step of the pattern, in seconds
estimated_duration ==
  [ analyze_audience_data |-> 600,
    analyze_historical_performance |-> 900,
    plan_segmentation_strategy |-> 1200,
    plan_message_sequences |-> 1800,
    execute_smart_segmentation |-> 900,
    optimize_message_timing |-> 1500,
    optimize_message_content |-> 1200,
    execute_campaign_launch |-> 3600,
    monitor_real_time_performance |-> 86400,
    evaluate_roi_performance |-> 1800,
    adapt_strategy_realtime |-> 900 ]

\* the statuses the engine gives a step
StepStatuses == { PENDING, IN_PROGRESS, COMPLETED, FAILED }

\* the ids get_pattern_status is asked for
StatusIds == { PatternId, "unknown" }

\* an engine that holds a started pattern of the first k steps of the
\* campaign pattern, k = 0 for a ThinkingPattern built with steps = [], the
\* steps in any status
StatusInit ==
  \E k \in 0..NSteps :
    \E st \in [{ StepNames[i] : i \in 1..k } -> StepStatuses] :
      /\ active_patterns = {PatternId}
      /\ thinking_queue =
           << [action |-> "start_pattern", pattern_id |-> PatternId] >>
      /\ status = st
      /\ result = [s \in DOMAIN st |-> "none"]
      /\ errors = [s \in DOMAIN st |-> 0]
      /\ inflight = [s \in DOMAIN st |-> 0]
      /\ badStage = {}
      /\ calls = 0
      /\ thinkRet = [op |-> "start_thinking", pattern_id |-> PatternId]
      /\ ErrInit /\ FnIdle /\ MonInit /\ RoiInit /\ WfInit

\* the steps of the pattern in the given statuses
StepsIn(st, statuses) == { s \in DOMAIN st : st[s] \in statuses }

\* remaining_time of _estimate_completion_time
RECURSIVE RemainingTime(_, _)
RemainingTime(st, steps) ==
  IF steps = {} THEN 0
  ELSE LET s == CHOOSE x \in steps : TRUE
       IN (IF st[s] \in {PENDING, IN_PROGRESS}
           THEN estimated_duration[s] ELSE 0)
            + RemainingTime(st, steps \ {s})

\* ThinkingEngine.get_pattern_status(pattern_id): the division by
\* total_steps raises ZeroDivisionError for a pattern without steps
get_pattern_status(id) ==
  LET total_steps == Cardinality(DOMAIN status)
      completed_steps == Cardinality(StepsIn(status, {COMPLETED}))
  IN /\ thinkRet' =
          IF id \notin active_patterns
          THEN [op |-> "get_pattern_status", error |-> "Pattern not found"]
          ELSE IF total_steps = 0
          THEN [op |-> "get_pattern_status", raised |-> "ZeroDivisionError"]
          ELSE [op |-> "get_pattern_status", pattern_id |-> id,
                total_steps |-> total_steps,
                completed_steps |-> completed_steps,
                failed_steps |-> Cardinality(StepsIn(status, {FAILED})),
                in_progress_steps |->
                  Cardinality(StepsIn(status, {IN_PROGRESS})),
                progress_percentage |->
                  Rat(completed_steps * 100, total_steps),
                estimated_completion |->
                  now + RemainingTime(status, DOMAIN status)]
     /\ UNCHANGED << active_patterns, thinking_queue, status, result, errors,
                     inflight, badStage, calls >>
     /\ UNCHANGED notEngineVars

StatusNext ==
  \/ Tick(LoopPeriod)
  \/ \E id \in StatusIds : get_pattern_status(id)

StatusSpec == StatusInit /\ [][StatusNext]_vars

\* C34: for a started pattern get_pattern_status returns the numbers of
\* Completed, Failed and InProgress steps, at most the total together, the
\* percentage completed / total * 100 within 0..100, and as estimated
\* completion the time of the call plus the durations of the Pending and
\* InProgress steps; for another id it returns the error and changes
\* nothing
C34_StatusCountsAndEstimate ==
  [][\A id \in StatusIds :
       get_pattern_status(id) =>
         IF id \in active_patterns
         THEN LET r == thinkRet'
                  total == Cardinality(DOMAIN status)
                  count(x) == Cardinality({ s \in DOMAIN status :
                                              status[s] = x })
              IN /\ DOMAIN r = { "op", "pattern_id", "total_steps",
                                 "completed_steps", "failed_steps",
                                 "in_progress_steps", "progress_percentage",
                                 "estimated_completion" }
                 /\ r.completed_steps = count(COMPLETED)
                 /\ r.failed_steps = count(FAILED)
                 /\ r.in_progress_steps = count(IN_PROGRESS)
                 /\ r.completed_steps + r.failed_steps + r.in_progress_steps
                      <= total
                 /\ r.progress_percentage[1] * total
                      = count(COMPLETED) * 100 * r.progress_percentage[2]
                 /\ r.progress_percentage[1] >= 0
                 /\ r.progress_percentage[1] <= 100 * r.progress_percentage[2]
                 /\ r.estimated_completion
                      = now + Sum([i \in 1..Len(StepNames) |->
                                     IF /\ StepNames[i] \in DOMAIN status
                                        /\ status[StepNames[i]]
                                             \in {PENDING, IN_PROGRESS}
                                     THEN estimated_duration[StepNames[i]]
                                     ELSE 0])
         ELSE /\ thinkRet' = [op |-> "get_pattern_status",
                              error |-> "Pattern not found"]
              /\ UNCHANGED << active_patterns, status, result, errors >>]_vars

\* the strategies handle_error can report, given the severities
\* _classify_error_severity assigns
ReportedStrategies ==
  { RETRY_WITH_BACKOFF, CIRCUIT_BREAKER, ESCALATION, FALLBACK, RETRY }

\* C35: the strategy handle_error reports and stores is RetryWithBackoff,
\* CircuitBreaker, Escalation, Fallback or Retry; no record is classified
\* Fatal or Low, and ManualIntervention, GracefulDegradation and Ignore are
\* never selected
C35_OnlyFiveStrategies ==
  /\ errRet.op = "handle_error" =>
       /\ errRet.recovery_strategy \in ReportedStrategies
       /\ errRet.severity \in { SEV_MEDIUM, SEV_HIGH, SEV_CRITICAL }
  /\ \A id \in DOMAIN error_registry :
       /\ error_registry[id].recovery_strategy \in ReportedStrategies
       /\ error_registry[id].recovery_strategy
            \notin { MANUAL_INTERVENTION, GRACEFUL_DEGRADATION, "ignore" }
       /\ error_registry[id].severity \notin { SEV_FATAL, SEV_LOW }

\* an error of the highest severity the classification assigns was handled,
\* after an error of another strategy
C35_Witness ==
  /\ errRet.op = "handle_error"
  /\ errRet.severity = SEV_CRITICAL
  /\ errRet.recovery_strategy = RETRY_WITH_BACKOFF
  /\ \E id \in DOMAIN error_registry :
       error_registry[id].recovery_strategy = ESCALATION

\* C36: every call of handle_error adds a record of its own to the
\* registry: the registry holds as many records as errors were handled, and
\* the statistics over a window that covers all of them report that number
\* as total_errors
C36_OneRecordPerError ==
  /\ [](Cardinality(DOMAIN error_registry) = nErrors)
  /\ [][\A r \in TimeRanges :
          (/\ get_error_statistics(r)
           /\ \A id \in DOMAIN error_registry :
                error_registry[id].timestamp >= now - r)
            => errRet'.total_errors = nErrors]_vars

\* ---------------------------------------------------------------------------
\* monitoring.py : the alert counts of get_performance_summary
\* ---------------------------------------------------------------------------

SummaryNext ==
  \/ Tick(LoopPeriod)
  \/ \E c \in Campaigns : \E metrics \in LoopSamples :
       MonitoringIteration(c, metrics)
  \/ \E id \in DOMAIN active_alerts : acknowledge_alert(id)
  \/ \E c \in Campaigns : get_performance_summary(c, Day)

SummarySpec == IdleInit /\ [][SummaryNext]_vars

\* summary["alerts"] of the summary of campaign c in a state of the monitor
AlertCounts(history, alerts, c, t) ==
  PerformanceSummary(history, alerts, c, Day, t).alerts

\* C37: the alert counts of the summary of a campaign are the same before
\* and after a sample of another campaign is checked and before and after
\* an alert of another campaign is acknowledged
C37_AlertCountsPerCampaign ==
  [][\A a \in Campaigns : \A b \in Campaigns \ {a} :
       (\/ \E metrics \in LoopSamples : MonitoringIteration(b, metrics)
        \/ \E id \in DOMAIN active_alerts :
             id[1] = b /\ acknowledge_alert(id))
         => AlertCounts(metric_history', active_alerts', a, now')
              = AlertCounts(metric_history, active_alerts, a, now)]_vars

\* loop i was started and has not ended, and the monitoring is stopped: at
\* its next wake-up the loop ends without a sample
StoppedLoop(i) ==
  /\ i \in DOMAIN loops
  /\ loops[i].state = RUNNING
  /\ ~ monitoring_active

\* C38: a loop that was started before stop_monitoring records no sample
\* after the stop and ends, whatever is called afterwards, start_monitoring
\* for another campaign included: once stopped, a loop stays stopped until
\* the step that ends it, and no step makes it a loop that samples again
C38_StoppedLoopsStayStopped ==
  [][\A i \in DOMAIN loops :
       StoppedLoop(i) =>
         /\ StoppedLoop(i)' \/ loops'[i].state = "finished"
         /\ metric_history' = metric_history]_vars

\* ---------------------------------------------------------------------------
\* integration/whatsapp_integration.py : WhatsAppMCPBridge and its
\* background loops. The bridge owns an orchestrator and a monitor; ret is
\* the state of the bridge.
\* ---------------------------------------------------------------------------

\* asyncio.sleep(300) of _start_performance_monitoring
PerformancePeriod == 300

\* WhatsAppConfig.sync_interval_seconds
sync_interval_seconds == 30

\* a task that was not created
NotCreated == [state |-> "none", wake |-> 0]

\* a bridge as constructed, with config.enable_real_time_sync set or not
BridgeInit ==
  \E sync \in BOOLEAN :
    /\ EngineInit({}) /\ ErrInit /\ MonInit /\ RoiInit /\ WfInit
    /\ args = [op |-> "bridge", enable_real_time_sync |-> sync]
    /\ ret = [op |-> "bridge", state |-> "constructed",
              sync_task |-> NotCreated, monitor_task |-> NotCreated,
              initiating |-> << >>, active_campaigns |-> {},
              sync_tasks |-> << >>]

\* WhatsAppMCPBridge.start_integration(): the tasks of the two loops are
\* created and kept in local variables only
start_integration ==
  /\ ret.state = "constructed"
  /\ ret' = [ret EXCEPT
               !.state = "started",
               !.sync_task = IF args.enable_real_time_sync
                             THEN [state |-> RUNNING, wake |-> now]
                             ELSE NotCreated,
               !.monitor_task = [state |-> RUNNING, wake |-> now]]
  /\ UNCHANGED << args, engineVars, errVars, monVars, roiVars, wfVars >>

\* one pass of the while True of _start_real_time_sync: the campaigns are
\* synchronised (the WhatsApp system returns no data) and the loop sleeps
\* sync_interval_seconds, or 60 seconds when the pass raised
SyncIteration(raised) ==
  /\ ret.sync_task.state = RUNNING
  /\ ret.sync_task.wake <= now
  /\ ret' = [ret EXCEPT !.sync_task.wake =
               IF raised THEN now + ErrorPeriod
               ELSE now + sync_interval_seconds]
  /\ UNCHANGED << args, engineVars, errVars, monVars, roiVars, wfVars >>

\* one pass of the while True of _start_performance_monitoring: the
\* summaries of the campaigns are read and the loop sleeps 300 seconds,
\* after an exception as well
PerformanceIteration ==
  /\ ret.monitor_task.state = RUNNING
  /\ ret.monitor_task.wake <= now
  /\ ret' = [ret EXCEPT !.monitor_task.wake = now + PerformancePeriod]
  /\ UNCHANGED << args, engineVars, errVars, monVars, roiVars, wfVars >>

\* initiate_intelligent_campaign(campaign_data) up to the first suspension,
\* inside start_campaign_workflow
InitiateBegin(cfg) ==
  LET pattern_id == PatternIdAt(now, 0)
  IN /\ StartCampaignWorkflowSteps(cfg, pattern_id)
     /\ ret' = [ret EXCEPT !.initiating =
                  DictPut(@, WorkflowId(pattern_id), cfg)]
     /\ UNCHANGED << tasks, wfRet, srvVars >>
     /\ UNCHANGED << args, errVars, monVars, roiVars >>

\* the rest of initiate_intelligent_campaign: the campaign is stored, its
\* monitoring loop is started and the task is kept in sync_tasks
InitiateStore(workflow_id) ==
  LET c == ret.initiating[workflow_id].campaign_id
  IN /\ StartMonitoringSteps(c)
     /\ ret' = [ret EXCEPT
                  !.initiating = DictDel(@, workflow_id),
                  !.active_campaigns = @ \cup {c},
                  !.sync_tasks = DictPut(@, c, Len(loops) + 1)]
     /\ UNCHANGED << srvVars, engineVars, args, errVars, roiVars >>

\* initiate_intelligent_campaign resumes when the workflow has run to its
\* end
InitiateComplete(workflow_id) ==
  /\ workflow_id \in DOMAIN ret.initiating
  /\ ExecuteCompleteSteps(workflow_id)
  /\ InitiateStore(workflow_id)

\* initiate_intelligent_campaign resumes when the workflow has failed
InitiateFail(workflow_id) ==
  /\ workflow_id \in DOMAIN ret.initiating
  /\ ExecuteFailSteps(workflow_id)
  /\ InitiateStore(workflow_id)

\* the tasks of sync_tasks
SyncTasks == { ret.sync_tasks[c] : c \in DOMAIN ret.sync_tasks }

\* WhatsAppMCPBridge.stop_integration(): the tasks of sync_tasks are
\* cancelled and the monitor is stopped
stop_integration ==
  /\ ret.state = "started"
  /\ loops' = [i \in DOMAIN loops |->
                 IF i \in SyncTasks /\ loops[i].state = RUNNING
                 THEN [loops[i] EXCEPT !.state = CANCELLED]
                 ELSE loops[i]]
  /\ monitoring_active' = FALSE
  /\ monRet' = [op |-> "stop_monitoring"]
  /\ ret' = [ret EXCEPT !.state = "stopped"]
  /\ UNCHANGED << metric_history, active_alerts >>
  /\ UNCHANGED << args, engineVars, errVars, roiVars, wfVars >>

BridgeNext ==
  \/ Tick(LoopPeriod)
  \/ start_integration
  \/ \E raised \in BOOLEAN : SyncIteration(raised)
  \/ PerformanceIteration
  \/ \E cfg \in CampaignConfigs :
       Len(loops) < MaxLoops /\ PatternIdAt(now, 0) \notin active_patterns
         /\ InitiateBegin(cfg)
  \/ \E id \in DOMAIN ret.initiating : InitiateComplete(id)
  \/ \E id \in DOMAIN ret.initiating : InitiateFail(id)
  \/ \E i \in DOMAIN loops : \E metrics \in LoopSamples :
       LoopIteration(i, metrics)
  \/ stop_integration

BridgeSpec == BridgeInit /\ [][BridgeNext]_vars

\* C39: once stop_integration has returned, the real-time sync loop, the
\* performance monitoring loop and the monitoring loops of the campaigns
\* make no further pass: none of them is due at a later time than before
C39_NoIterationAfterStop ==
  [][ret.state = "stopped" =>
       /\ ret'.sync_task.wake = ret.sync_task.wake
       /\ ret'.monitor_task.wake = ret.monitor_task.wake
       /\ \A i \in DOMAIN loops : loops'[i].wake = loops[i].wake]_vars

====
